---- MODULE Spec2Model ----
(***************************************************************************)
(* ResumePilot server: the batch cover-letter job orchestrator             *)
(* (processBatchCoverLetters, POST /api/covers/batch, GET /api/jobs/:id),  *)
(* the WebSocket channel registry (wsConnections, broadcastToChannel) and  *)
(* the Gemini quota counters (checkQuotaLimit / incrementQuotaCount) of    *)
(* services/gemini-ats-scorer.ts and services/gemini-enhanced.ts.          *)
(*                                                                         *)
(* Scheduling.  The server is one Node.js process.  better-sqlite3 is      *)
(* synchronous, so every storage method does its work when it is called    *)
(* and the `await` on it resumes in a microtask.  A request handler, a     *)
(* timer callback, a WebSocket event or the completion of a network call   *)
(* is a macrotask and runs only when no microtask is left.  The steps of   *)
(* processBatchCoverLetters between two real suspensions (the Gemini call, *)
(* the one second setTimeout) are therefore separate actions of the model  *)
(* that no macrotask action can interleave with (guard Idle).              *)
(***************************************************************************)
EXTENDS Integers, Sequences, FiniteSets, TLC

\* ---------------------------------------------------------------- bounds
MaxJobs == 1
MaxTargets == 3
MaxFaults == 2
MaxConns == 2
MaxDay == 1
MaxScoreRequests == 1
MaxKeywords == 3
MaxBullets == 12
MaxTexts == 1
MaxExcess == 1
MaxDim == 2
MaxVocab == 11
MaxSockets == 7

\* -------------------------------------------------- stored test documents
\* resume ids a request may name; only those in StoredResumes have a row
ResumeIds == {"r1", "r2"}
StoredResumes == {"r1"}
\* job description ids a request may name; only StoredJds have a row
JdIds == {"jd1", "jd2"}
StoredJds == {"jd1"}

JobIds == 1..MaxJobs
Conns == 1..MaxConns

\* const MAX_DAILY_REQUESTS = 45
MAX_DAILY_REQUESTS == 45
\* websocket.ts maxReconnectAttempts
maxReconnectAttempts == 5

\* values process.env.GEMINI_API_KEY can hold
ApiKeys == {"", "default_key", "your_gemini_api_key_here", "AIzaKey"}
\* the two classes of them the batch processor can tell apart
JobApiKeys == {"", "AIzaKey"}

VARIABLES
  jobs,            \* table jobs: id -> row (status "none": no row yet)
  coverLetters,    \* table cover_letters, in insertion order
  pc,              \* position of processBatchCoverLetters(jobId)
  idx,             \* its loop variable i
  results,         \* its local results array
  resume,          \* its local resume (TRUE: row found)
  jds,             \* its local jds array (FALSE entry: undefined)
  genMode,         \* how the pending generateCoverLetter runs: "api" / "mock"
  wsConnections,   \* Map<string, Set<WebSocket>>
  readyState,      \* per connection: "none", "OPEN", "CLOSED"
  inbox,           \* per connection: messages sent to it by ws.send
  published,       \* history: per job, data of every broadcastToChannel on batch:{job}
  enqueueResp,     \* history: per job, status stored when res.json({jobId}) ran
  getResp,         \* response of GET /api/jobs/:id, if that handler ran last
  outcomes,        \* history: per job, whether each handled target's operation succeeded
  escaped,         \* history: per job, an exception reached the outer catch
  faults,          \* number of storage exceptions injected so far
  apiKey,          \* process.env.GEMINI_API_KEY
  today,           \* new Date().toDateString()
  atsCount,        \* gemini-ats-scorer.ts dailyRequestCount
  atsResetDate,    \* gemini-ats-scorer.ts lastResetDate
  enhCount,        \* gemini-enhanced.ts dailyRequestCount
  enhResetDate,    \* gemini-enhanced.ts lastResetDate
  apiCalls,        \* history: calls issued to Gemini during the day `today`
  score,           \* the computeGeminiATSScore call in progress or just answered
  enhLast,         \* how the last generateCoverLetterWithQuota call was routed
  atsRoute,        \* POST /api/ats/score: the request in progress or just answered
  atsPublished,    \* history: every broadcastToChannel of POST /api/ats/score
  atsScores,       \* table ats_scores
  atsGet,          \* response of GET /api/ats/score/:resumeId/:jdId, if it ran last
  wsLast,          \* history: the text given to ws.on('message'), if it ran last, and the
                   \* connection it subscribed (0: none)
  embeddingCache,  \* gemini-enhanced.ts embeddingCache: the cache keys it holds
  san,             \* the sanitizing step of computeGeminiATSScore applied to one parsed answer
  emb,             \* computeATSScoreWithEmbeddings applied to one (resume, jdText, embeddings)
  kw,              \* the keyword scorers applied to one (target keywords, candidate keywords)
  sockets,         \* client: readyState of every WebSocket the hook has created, in order
  wsRef,           \* client: wsRef.current, an index of sockets (0: null)
  reconnectTimeoutRef, \* client: reconnectTimeoutRef.current, an index of timers (0: null)
  timers,          \* client: every timer set by onclose: "pending", "fired" or "cleared"
  reconnectAttempts,   \* client: reconnectAttempts.current
  hook,            \* client: the component is "initial", "mounted" or "unmounted"
  disconnected,    \* history: disconnect() has run
  embCall,         \* the generateEmbeddingWithCache call in progress or just answered
  det              \* the deterministic scorers applied to one (resume, jdText): the last
                   \* call and, per function, its first answer with the day it was given

procVars == <<jobs, coverLetters, pc, idx, results, resume, jds, genMode,
              published, enqueueResp, outcomes, escaped, faults>>
jobVars == <<procVars, getResp>>
wsVars == <<wsConnections, readyState, inbox>>
quotaVars == <<today, atsCount, atsResetDate, enhCount, enhResetDate, apiCalls, score, enhLast>>
extVars == <<atsRoute, atsPublished, atsScores, atsGet, wsLast, det>>
cacheVars == <<embeddingCache, embCall>>
pureVars == <<san, emb, kw>>
clientVars == <<sockets, wsRef, reconnectTimeoutRef, timers, reconnectAttempts, hook, disconnected>>
svcVars == <<cacheVars, pureVars, clientVars>>
vars == <<jobVars, wsVars, quotaVars, apiKey, extVars, svcVars>>

\* ------------------------------------------------------------ data shapes
NoArtifacts == [kind |-> "null", error |-> "", results |-> <<>>]
\* mutant: the error status is stored without its reason
ErrorArtifactsDropped(msg) == NoArtifacts
ErrorArtifacts(msg) == [kind |-> "error", error |-> msg, results |-> <<>>]
ResultArtifacts(rs) == [kind |-> "results", error |-> "", results |-> rs]

\* no GET /api/jobs/:id response is being written
NoResponse == [id |-> 0, status |-> "none", artifacts |-> NoArtifacts]

NoJob == [status |-> "none", artifacts |-> NoArtifacts, resumeId |-> "", jdIds |-> <<>>]

BatchChannel(j) == <<"batch", j>>
Channels == {BatchChannel(j) : j \in JobIds}

\* non-empty jdIds arrays (the route rejects an empty one)
TargetLists == UNION {[1..n -> JdIds] : n \in 1..MaxTargets}

\* mutant: the share of the targets done once this one is finished
RoundPercentAfter(i, n) == (200 * (i + 1) + n) \div (2 * n)
\* Math.round((i / n) * 100), i and n non-negative, n > 0
RoundPercent(i, n) == (200 * i + n) \div (2 * n)

\* ------------------------------------------------------- quota (helpers)
\* gemini-enhanced.ts: !apiKey || "default_key" || "your_gemini_api_key_here"
EnhConfigured(k) == ~(k = "" \/ k = "default_key" \/ k = "your_gemini_api_key_here")

\* gemini-enhanced.ts checkQuotaLimit(): value of the counter after the day check
checkQuotaLimitEnhCount(count, last, now) == IF now # last THEN 0 ELSE count
\* gemini-enhanced.ts checkQuotaLimit(): its return value
checkQuotaLimitEnh(count, last, now) ==
  IF checkQuotaLimitEnhCount(count, last, now) >= MAX_DAILY_REQUESTS THEN FALSE ELSE TRUE

\* generateCoverLetterWithQuota up to its Gemini call: "mock-nokey" without a
\* usable key, "mock-noquota" when checkQuotaLimit() is false, else "api"
EnhRoute(k, count, last, now) ==
  IF ~EnhConfigured(k) THEN "mock-nokey"
  ELSE IF ~checkQuotaLimitEnh(count, last, now) THEN "mock-noquota"
  ELSE "api"

\* mutant: the 'default_key' placeholder is taken for a key (as getGeminiClient does)
AtsConfiguredLoose(k) == ~(k = "" \/ k = "your_gemini_api_key_here")
\* gemini-ats-scorer.ts: !apiKey || '' || 'your_gemini_api_key_here' || 'default_key'
AtsConfigured(k) ==
  ~(k = "" \/ k = "your_gemini_api_key_here" \/ k = "default_key")

\* gemini-ats-scorer.ts checkQuotaLimit(): the counter after the day check
checkQuotaLimitAtsCount(count, last, now) == IF now # last THEN 0 ELSE count
\* mutant: the comparison lets one more request through
checkQuotaLimitAtsInclusive(count, last, now) ==
  checkQuotaLimitAtsCount(count, last, now) <= MAX_DAILY_REQUESTS
\* gemini-ats-scorer.ts checkQuotaLimit(): return dailyRequestCount < MAX_DAILY_REQUESTS
checkQuotaLimitAts(count, last, now) ==
  checkQuotaLimitAtsCount(count, last, now) < MAX_DAILY_REQUESTS

\* mutant: the request is not counted
incrementQuotaCountNot(count) == count
\* incrementQuotaCount(): dailyRequestCount++
incrementQuotaCount(count) == count + 1

\* ----------------------------------------------------------- the scorers
\* Math.round(a / b) for a >= 0, b > 0
Round(a, b) == (2 * a + b) \div (2 * b)
Min(a, b) == IF a < b THEN a ELSE b
Max(a, b) == IF a > b THEN a ELSE b

\* what getFallbackATSScore reads off (resume, jdText): the number of JD
\* keywords kept and of those found in the resume text, the bullets and the
\* quantified ones, and the four formatting checks
\* (ats-engine.ts computeATSScore reads in addition: the bullets shorter than 20
\* or longer than 150 characters, whether the joined text has a sentence and a
\* word, and its Flesch-Kincaid grade level, here in tenths)
ScoreInputs ==
  { [total |-> 0, matched |-> 0, bullets |-> 0, quantified |-> 0, bad |-> 0,
     contact |-> FALSE, summary |-> FALSE, experience |-> FALSE, skills |-> FALSE,
     words |-> TRUE, grade |-> 100],
    [total |-> 3, matched |-> 2, bullets |-> 2, quantified |-> 1, bad |-> 1,
     contact |-> TRUE, summary |-> TRUE, experience |-> TRUE, skills |-> TRUE,
     words |-> TRUE, grade |-> 100] }
NoInput == [total |-> 0, matched |-> 0, bullets |-> 0, quantified |-> 0, bad |-> 0,
            contact |-> TRUE, summary |-> TRUE, experience |-> TRUE, skills |-> TRUE,
            words |-> TRUE, grade |-> 100]

\* the (resume, jdText) pairs the scorers are applied to as pure functions:
\* no, one, two or many bullets; a resume without experience has no bullet; a
\* text without a word has no keyword
BulletCounts == {0, 1, 2, MaxBullets}
GradeLevels == {59, 60, 120, 121}
DetInputs ==
  { in \in [total : 0..MaxKeywords, matched : 0..MaxKeywords,
            bullets : BulletCounts, quantified : 0..MaxBullets, bad : 0..MaxBullets,
            contact : BOOLEAN, summary : BOOLEAN, experience : BOOLEAN,
            skills : BOOLEAN, words : BOOLEAN, grade : GradeLevels] :
      /\ in.matched <= in.total
      /\ in.quantified \in {0, 1, (in.bullets + 1) \div 2, in.bullets}
      /\ in.quantified <= in.bullets
      /\ in.bad <= in.bullets
      /\ (in.bad <= 2 \/ in.bad >= in.bullets - 1)
      /\ (~in.experience => in.bullets = 0)
      /\ (~in.words => (in.total = 0 /\ in.grade = 120)) }

\* { overall, breakdown }: the five `score` fields and the `total` written
\* next to each of them (keywords.total, kt, is the number of keywords of the
\* job description; the keyword score is scaled to 40 by its formula)
ScoreResult(k, kt, r, q, f, rd) ==
  [overall |-> k + r + q + f + rd, keywords |-> k, relevancy |-> r,
   quantification |-> q, formatting |-> f, readability |-> rd,
   totals |-> [keywords |-> kt, relevancy |-> 25, quantification |-> 15,
               formatting |-> 10, readability |-> 10]]
NoResult == ScoreResult(0, 0, 0, 0, 0, 0)

\* mutant: the readability score depends on the day of the call
getFallbackATSScoreByDay(in) ==
  LET keywordScore == Round(40 * in.matched, Max(in.total, 1))
  IN ScoreResult(keywordScore, in.total, Min(25, keywordScore + 5), 0, 0, 8 - today)
\* getFallbackATSScore(resume, jdText)
getFallbackATSScore(in) ==
  LET keywordScore == Round(40 * in.matched, Max(in.total, 1))
      quantificationScore ==
        IF in.bullets > 0 THEN Round(15 * in.quantified, in.bullets) ELSE 0
      formattingScore ==
        10 - (IF ~in.contact THEN 3 ELSE 0) - (IF ~in.summary THEN 2 ELSE 0)
           - (IF ~in.experience THEN 3 ELSE 0) - (IF ~in.skills THEN 2 ELSE 0)
  IN ScoreResult(keywordScore, in.total, Min(25, keywordScore + 5), quantificationScore,
                 Max(0, formattingScore), 8)

\* ats-engine.ts calculateKeywordScore: total > 0 ? Math.round((matched / total) * 40) : 0
calculateKeywordScore(in) ==
  IF in.total > 0 THEN Round(40 * in.matched, in.total) ELSE 0

\* ats-engine.ts calculateQuantificationScore: Math.round(percentage * 15)
calculateQuantificationScore(in) ==
  IF in.bullets > 0 THEN Round(15 * in.quantified, in.bullets) ELSE 0

\* mutant: the rounded score is returned without Math.max(0, ..)
calculateFormattingScoreUnclamped(in) ==
  LET halves == 20 - (IF ~in.contact THEN 4 ELSE 0) - (IF ~in.summary THEN 2 ELSE 0)
                   - (IF ~in.experience THEN 6 ELSE 0) - (IF ~in.skills THEN 4 ELSE 0)
                   - in.bad
  IN (halves + 1) \div 2
\* ats-engine.ts calculateFormattingScore: 10, minus 2 / 1 / 3 / 2 for a missing
\* section, minus 0.5 per badly sized bullet; Math.max(0, Math.round(score)),
\* Math.round being floor(x + 0.5).  The score is kept in halves.
calculateFormattingScore(in) ==
  LET halves == 20 - (IF ~in.contact THEN 4 ELSE 0) - (IF ~in.summary THEN 2 ELSE 0)
                   - (IF ~in.experience THEN 6 ELSE 0) - (IF ~in.skills THEN 4 ELSE 0)
                   - in.bad
  IN Max(0, (halves + 1) \div 2)

\* ats-engine.ts calculateReadabilityScore: 5 for a text without sentence or
\* word, else 10 / 7 / 4 by the grade level (8..12, 6..14, other)
calculateReadabilityScore(in) ==
  IF ~in.words THEN 5
  ELSE IF in.grade >= 80 /\ in.grade <= 120 THEN 10
  ELSE IF in.grade >= 60 /\ in.grade <= 140 THEN 7
  ELSE 4

\* ats-engine.ts computeATSScore(resume, jdText);
\* relevancy is Math.min(25, Math.round(keywordData.score * 0.6 + 10))
computeATSScore(in) ==
  LET keywordScore == calculateKeywordScore(in)
  IN ScoreResult(keywordScore, in.total, Min(25, (6 * keywordScore + 105) \div 10),
                 calculateQuantificationScore(in), calculateFormattingScore(in),
                 calculateReadabilityScore(in))

\* the sub-scores a parsed Gemini answer can carry: `fields` are the sub-score
\* objects the JSON has; in contract, out of range, without any sub-score
\* ("{}"), and with two of the five
ScoreFields == {"keywords", "relevancy", "quantification", "formatting", "readability"}
Analyses ==
  { [fields |-> ScoreFields, total |-> 12, suggestions |-> 4,
     keywords |-> 30, relevancy |-> 20, quantification |-> 10, formatting |-> 8, readability |-> 7],
    [fields |-> ScoreFields, total |-> 0, suggestions |-> 7,
     keywords |-> 55, relevancy |-> -3, quantification |-> 15, formatting |-> 0, readability |-> 12],
    [fields |-> {}, total |-> 0, suggestions |-> -1,
     keywords |-> 0, relevancy |-> 0, quantification |-> 0, formatting |-> 0, readability |-> 0],
    [fields |-> {"keywords", "formatting"}, total |-> 9, suggestions |-> 0,
     keywords |-> 25, relevancy |-> 0, quantification |-> 0, formatting |-> 9, readability |-> 0] }
NoAnalysis == [fields |-> {}, total |-> 0, suggestions |-> -1,
               keywords |-> 0, relevancy |-> 0, quantification |-> 0, formatting |-> 0, readability |-> 0]

\* (suggestions: the length of analysis.suggestions, -1 when it is no array)

\* analysis.<field>?.score || 0
ScoreOr0(a, field) == IF field \in a.fields THEN a[field] ELSE 0

\* the scores capped but not floored at 0
sanitizeNoFloor(a) ==
  ScoreResult(Min(40, ScoreOr0(a, "keywords")),
              Max(1, IF "keywords" \in a.fields /\ a.total # 0 THEN a.total ELSE 1),
              Min(25, ScoreOr0(a, "relevancy")),
              Min(15, ScoreOr0(a, "quantification")),
              Min(10, ScoreOr0(a, "formatting")),
              Min(10, ScoreOr0(a, "readability")))
\* computeGeminiATSScore, "Validate and sanitize scores":
\* Math.min(max, Math.max(0, score || 0)) per sub-score, overall their sum;
\* keywords.total is Math.max(1, analysis.keywords?.total || 1)
sanitize(a) ==
  ScoreResult(Min(40, Max(0, ScoreOr0(a, "keywords"))),
              Max(1, IF "keywords" \in a.fields /\ a.total # 0 THEN a.total ELSE 1),
              Min(25, Max(0, ScoreOr0(a, "relevancy"))),
              Min(15, Max(0, ScoreOr0(a, "quantification"))),
              Min(10, Max(0, ScoreOr0(a, "formatting"))),
              Min(10, Max(0, ScoreOr0(a, "readability"))))

\* Array.isArray(analysis.suggestions) ? analysis.suggestions.slice(0, 5)
\*                                    : ["Resume analyzed successfully"]  (the length)
sanitizeSuggestions(a) == IF a.suggestions >= 0 THEN Min(a.suggestions, 5) ELSE 1

\* the parsed answers the sanitizing step is applied to as a pure function:
\* every sub-score absent, below 0, 0, 1, its maximum or above it; the
\* suggestions no array, empty, five or more
PointsMax == [keywords |-> 40, relevancy |-> 25, quantification |-> 15, formatting |-> 10,
              readability |-> 10]
ScoreValues(f) == {-MaxExcess, 0, 1, PointsMax[f], PointsMax[f] + MaxExcess}
SanInputs ==
  { [fields |-> fs, total |-> 3, suggestions |-> sg,
     keywords |-> IF "keywords" \in fs THEN k ELSE 0,
     relevancy |-> IF "relevancy" \in fs THEN r ELSE 0,
     quantification |-> IF "quantification" \in fs THEN q ELSE 0,
     formatting |-> IF "formatting" \in fs THEN f ELSE 0,
     readability |-> IF "readability" \in fs THEN rd ELSE 0] :
       fs \in SUBSET ScoreFields, sg \in {-1, 0, 5, 5 + MaxExcess},
       k \in ScoreValues("keywords"), r \in ScoreValues("relevancy"),
       q \in ScoreValues("quantification"), f \in ScoreValues("formatting"),
       rd \in ScoreValues("readability") }
\* ------------------------------------------------ embeddings (ats-engine.ts)
\* the embeddings the enhanced scorer is applied to: every vector of up to
\* MaxDim components -1, 0 or 1 (the empty and the zero vectors included)
EmbedVectors == UNION {[1..n -> {-1, 0, 1}] : n \in 0..MaxDim}
Both == {"resume", "jd"}

RECURSIVE DotProduct(_, _, _)
\* the sum of a[i] * b[i] over the first n components
DotProduct(a, b, n) == IF n = 0 THEN 0 ELSE a[n] * b[n] + DotProduct(a, b, n - 1)

\* calculateCosineSimilarity(a, b): 0 for different lengths, else
\* dotProduct / (Math.sqrt(normA) * Math.sqrt(normB)), kept as the pair
\* (num, den2) standing for num / sqrt(den2); 0 / 0 is NaN
calculateCosineSimilarity(a, b) ==
  IF Len(a) # Len(b) THEN [nan |-> FALSE, num |-> 0, den2 |-> 1]
  ELSE LET normA == DotProduct(a, a, Len(a))
           normB == DotProduct(b, b, Len(b))
       IN IF normA * normB = 0
            THEN [nan |-> TRUE, num |-> 0, den2 |-> 0]
            ELSE [nan |-> FALSE, num |-> DotProduct(a, b, Len(a)), den2 |-> normA * normB]

\* m * sqrt(p) <= n, for p > 0
LeqSqrt(m, p, n) ==
  IF m <= 0 /\ n >= 0 THEN TRUE
  ELSE IF m > 0 /\ n < 0 THEN FALSE
  ELSE IF m > 0 THEN m * m * p <= n * n
  ELSE m * m * p >= n * n

\* Math.round(cosineSimilarity * 25) for a similarity that is a number: the
\* integer r with r - 0.5 <= 25 * num / sqrt(den2) < r + 0.5
RoundTimes25(c) ==
  CHOOSE r \in -25..25 :
    /\ LeqSqrt(2 * r - 1, c.den2, 50 * c.num)
    /\ ~LeqSqrt(2 * r + 1, c.den2, 50 * c.num)

\* computeATSScoreWithEmbeddings(resume, jdText, resumeEmbedding?, jdEmbedding?):
\* nan: relevancy.score and overall are NaN (their fields are then left at 0)
computeATSScoreWithEmbeddings(in, supplied, a, b) ==
  LET baseResult == computeATSScore(in)
  IN IF supplied = Both
       THEN LET cosineSimilarity == calculateCosineSimilarity(a, b)
            IN IF cosineSimilarity.nan
                 THEN [nan |-> TRUE,
                       result |-> [baseResult EXCEPT !.relevancy = 0, !.overall = 0]]
                 ELSE LET enhancedRelevancyScore == RoundTimes25(cosineSimilarity)
                      IN [nan |-> FALSE,
                          result |-> [baseResult EXCEPT
                                        !.relevancy = enhancedRelevancyScore,
                                        !.overall = baseResult.keywords + enhancedRelevancyScore
                                                      + baseResult.quantification
                                                      + baseResult.formatting
                                                      + baseResult.readability]]
       ELSE [nan |-> FALSE, result |-> baseResult]

IdleEmb == [state |-> "idle", input |-> NoInput, supplied |-> {}, a |-> <<>>, b |-> <<>>,
            nan |-> FALSE, result |-> NoResult]

\* ------------------------------------------------------- keyword coverage
\* keywords are numbered; the target's keywords are a list without repetition
\* (Array.from of a Set, in insertion order), the candidate's a set
Vocabulary == 1..MaxVocab
TargetKeywords ==
  {[i \in 1..n |-> i] : n \in 0..MaxVocab} \cup {[i \in 1..n |-> n + 1 - i] : n \in 0..MaxVocab}
CandidateKeywords ==
  {a..b : a \in 1..2, b \in 0..MaxVocab} \cup {{k \in Vocabulary : k % 2 = 1}}

\* array.slice(0, n)
Slice(seq, n) == SubSeq(seq, 1, Min(Len(seq), n))

\* mutant: every missing keyword is reported
calculateKeywordScoreOfAll(jd, res) ==
  LET matchedCount == Len(SelectSeq(jd, LAMBDA k : k \in res))
  IN [score |-> calculateKeywordScore([total |-> Len(jd), matched |-> matchedCount]),
      matched |-> matchedCount, total |-> Len(jd),
      missing |-> SelectSeq(jd, LAMBDA k : k \notin res)]
\* ats-engine.ts calculateKeywordScore on the important keywords of the job
\* description and the keywords of the resume
calculateKeywordScoreOf(jd, res) ==
  LET matchedCount == Len(SelectSeq(jd, LAMBDA k : k \in res))
  IN [score |-> calculateKeywordScore([total |-> Len(jd), matched |-> matchedCount]),
      matched |-> matchedCount, total |-> Len(jd),
      missing |-> Slice(SelectSeq(jd, LAMBDA k : k \notin res), 10)]

\* getFallbackATSScore, breakdown.keywords: at most 20 keywords of the job
\* description are kept, the resume text is searched for each
getFallbackKeywords(jd, res) ==
  LET commonKeywords == Slice(jd, 20)
      matchedKeywords == SelectSeq(commonKeywords, LAMBDA k : k \in res)
  IN [score |-> Round(40 * Len(matchedKeywords), Max(Len(commonKeywords), 1)),
      matched |-> Len(matchedKeywords), total |-> Len(commonKeywords),
      missing |-> Slice(SelectSeq(commonKeywords, LAMBDA k : k \notin res), 5)]

NoKeywords == [score |-> 0, matched |-> 0, total |-> 0, missing |-> <<>>]
IdleKw == [state |-> "idle", jd |-> <<>>, resume |-> {}, engine |-> NoKeywords,
           fallback |-> NoKeywords]

\* the client hook before its effect has run: no socket, no timer
InitClient ==
  /\ sockets = <<>>
  /\ wsRef = 0
  /\ reconnectTimeoutRef = 0
  /\ timers = <<>>
  /\ reconnectAttempts = 0
  /\ hook = "initial"
  /\ disconnected = FALSE

IdleSan == [state |-> "idle", analysis |-> NoAnalysis, result |-> NoResult, suggestions |-> 0]

IdleScore == [state |-> "idle", input |-> NoInput, route |-> "none", result |-> NoResult,
              analysis |-> NoAnalysis]

\* ---------------------------------------------------------- the registry
\* mutant: the message names no channel
MessageBare(channel, data) == [channel |-> <<>>, data |-> data]
\* JSON.stringify({ channel, data })
Message(channel, data) == [channel |-> channel, data |-> data]

\* mutant: a channel nobody subscribed to is sent to every open connection
broadcastToChannelAll(ib, channel, data) ==
  [c \in Conns |->
     IF readyState[c] = "OPEN" /\ (channel \in DOMAIN wsConnections => c \in wsConnections[channel])
       THEN Append(ib[c], Message(channel, data))
       ELSE ib[c]]
\* broadcastToChannel(channel, data): what each connection has been sent
broadcastToChannel(ib, channel, data) ==
  IF channel \in DOMAIN wsConnections
    THEN [c \in Conns |->
            IF c \in wsConnections[channel] /\ readyState[c] = "OPEN"
              THEN Append(ib[c], Message(channel, data))
              ELSE ib[c]]
    ELSE ib

\* `ats:${resumeId}:${jdId}`
AtsChannel(rid, jid) == <<"ats", rid, jid>>
\* the channels a client subscribes to
WsChannels ==
  {AtsChannel(rid, jid) : rid \in StoredResumes, jid \in StoredJds} \cup {BatchChannel(1)}

\* texts a client can send: not JSON, the JSON values 42 and null, an object
\* without channel, and { channel }
NoChannel == <<>>
MalformedMessages ==
  { [json |-> "invalid", channel |-> NoChannel], [json |-> "number", channel |-> NoChannel],
    [json |-> "null", channel |-> NoChannel], [json |-> "object", channel |-> NoChannel] }
SubscribeMessages == {[json |-> "object", channel |-> ch] : ch \in WsChannels}
WsMessages == MalformedMessages \cup SubscribeMessages
NoWsMessage == [conn |-> 0, msg |-> [json |-> "none", channel |-> NoChannel]]

\* mutant: a JSON number is taken for the name of the first batch channel
ParsedChannelLoose(m) ==
  IF m.json = "number" THEN BatchChannel(1)
  ELSE IF m.json = "object" THEN m.channel ELSE NoChannel
\* const { channel } = JSON.parse(message.toString()): JSON.parse raises on a
\* text that is not JSON, the destructuring raises on null (both caught and
\* logged), a number or an object without the key gives undefined
ParsedChannel(m) == IF m.json = "object" THEN m.channel ELSE NoChannel

\* mutant: the connection is added to every set there is
SubscribeEvery(reg, c, ch) ==
  [k \in (DOMAIN reg) \cup {ch} |-> (IF k \in DOMAIN reg THEN reg[k] ELSE {}) \cup {c}]
\* if (!wsConnections.has(channel)) wsConnections.set(channel, new Set());
\* wsConnections.get(channel).add(ws)
Subscribe(reg, c, ch) ==
  [k \in (DOMAIN reg) \cup {ch} |->
     IF k = ch THEN (IF ch \in DOMAIN reg THEN reg[ch] ELSE {}) \cup {c} ELSE reg[k]]

\* mutant: closing a connection empties every set
UnsubscribeAll(reg, c) == [k \in DOMAIN reg |-> {}]
\* wsConnections.forEach(connections => connections.delete(ws))
Unsubscribe(reg, c) == [k \in DOMAIN reg |-> reg[k] \ {c}]

\* ------------------------------------------------- the score route (data)
\* the (resume.json, jd.rawText) stored under the ids
InputOf(rid, jid) ==
  [total |-> 3, matched |-> 2, bullets |-> 2, quantified |-> 1, bad |-> 1,
   contact |-> TRUE, summary |-> TRUE, experience |-> TRUE, skills |-> TRUE,
   words |-> TRUE, grade |-> 100]

\* scoreData / finalScoreData
ScoreData(flag, r) == [partial |-> flag = "partial", final |-> flag = "final", result |-> r]
\* mutant: the final message is published before the partial one
ScoreEventsReversed(r) == <<ScoreData("final", r), ScoreData("partial", r)>>
\* the data of the two broadcastToChannel calls of POST /api/ats/score, in order
ScoreEvents(r) == <<ScoreData("partial", r), ScoreData("final", r)>>

NoAtsRequest == [stage |-> "idle", resumeId |-> "", jdId |-> "", http |-> 0,
                 body |-> NoResult, count |-> 0]
NoAtsResponse == [http |-> 0, resumeId |-> "", jdId |-> "", body |-> NoResult]
\* SQLiteStorage.getATSScore: SELECT * FROM ats_scores WHERE resume_id = ? AND jd_id = ?
getATSScore(tbl, rid, jid) == {row \in tbl : row.resumeId = rid /\ row.jdId = jid}

\* the cache keys, text.substring(0, 100), of the texts embedded
EmbedKeys == 1..MaxTexts
IdleEmbed == [state |-> "idle", key |-> 0, route |-> "none"]

IdleDet == [input |-> NoInput, fn |-> "none", result |-> NoResult,
            first |-> [fallback |-> <<>>, engine |-> <<>>]]

GeneratingEvent(i, n, title) ==
  [progress |-> RoundPercent(i, n), status |-> "generating", current |-> title, results |-> <<>>]
\* mutant: the final event leaves the results out
CompletedEventNoResults(rs) ==
  [progress |-> 100, status |-> "completed", current |-> "", results |-> <<>>]
CompletedEvent(rs) ==
  [progress |-> 100, status |-> "completed", current |-> "", results |-> rs]

\* ------------------------------------------------------------- the store
\* mutant: the row is inserted as already running
createJobRunning(tbl, id, rid, ids) ==
  [tbl EXCEPT ![id] = [status |-> "running", artifacts |-> NoArtifacts,
                       resumeId |-> rid, jdIds |-> ids]]
\* SQLiteStorage.createJob: INSERT with the given status, artifacts NULL
createJob(tbl, id, rid, ids) ==
  [tbl EXCEPT ![id] = [status |-> "pending", artifacts |-> NoArtifacts,
                       resumeId |-> rid, jdIds |-> ids]]

\* mutant: the UPDATE matches no row
updateJobStatusNot(tbl, id, status, artifacts) == tbl
\* SQLiteStorage.updateJobStatus: UPDATE jobs SET status = ?, artifacts = ?
updateJobStatus(tbl, id, status, artifacts) ==
  [tbl EXCEPT ![id].status = status, ![id].artifacts = artifacts]

\* updateJobStatus is the UPDATE followed by getJob(id): either statement can
\* raise, so a call ends "ok", raises with the row untouched, or raises with
\* the row already written.
UpdateOutcomes == {"ok", "throwBeforeWrite", "throwAfterWrite"}
Written(o) == o \in {"ok", "throwAfterWrite"}
MayFault(o) == o = "ok" \/ faults < MaxFaults
FaultCount(o) == IF o = "ok" THEN faults ELSE faults + 1

\* ------------------------------------------------------------ scheduling
\* positions whose continuation is a queued microtask
MicroPcs == {"running", "load", "check", "loop", "catch"}
MicroPending(j) == pc[j] \in MicroPcs \/ (pc[j] = "gen" /\ genMode[j] = "mock")
\* a macrotask (request, timer, socket event, network completion) can start
Idle == \A j \in JobIds : ~MicroPending(j)

\* ------------------------------------------------------------------ Init
Init ==
  /\ jobs = [j \in JobIds |-> NoJob]
  /\ coverLetters = <<>>
  /\ pc = [j \in JobIds |-> "none"]
  /\ idx = [j \in JobIds |-> 0]
  /\ results = [j \in JobIds |-> <<>>]
  /\ resume = [j \in JobIds |-> FALSE]
  /\ jds = [j \in JobIds |-> <<>>]
  /\ genMode = [j \in JobIds |-> "none"]
  /\ wsConnections = <<>>
  /\ readyState = [c \in Conns |-> "none"]
  /\ inbox = [c \in Conns |-> <<>>]
  /\ published = [j \in JobIds |-> <<>>]
  /\ enqueueResp = [j \in JobIds |-> "none"]
  /\ getResp = NoResponse
  /\ outcomes = [j \in JobIds |-> <<>>]
  /\ escaped = [j \in JobIds |-> FALSE]
  /\ faults = 0
  /\ apiKey \in JobApiKeys
  /\ today = 0
  /\ atsCount = 0
  /\ atsResetDate = 0
  /\ enhCount = 0
  /\ enhResetDate = 0
  /\ apiCalls = 0
  /\ score = IdleScore
  /\ enhLast = "none"
  /\ atsRoute = NoAtsRequest
  /\ atsPublished = <<>>
  /\ atsScores = {}
  /\ atsGet = NoAtsResponse
  /\ wsLast = NoWsMessage
  /\ det = IdleDet
  /\ embeddingCache = {}
  /\ embCall = IdleEmbed
  /\ san = IdleSan
  /\ emb = IdleEmb
  /\ kw = IdleKw
  /\ InitClient

\* ------------------------------------------- POST /api/covers/batch
\* createJob, then processBatchCoverLetters(job.id) runs up to its first
\* await (storage.getJob, which may raise), then res.json({ jobId }).
Enqueue(rid, ids, o) ==
  /\ getResp' = NoResponse
  /\ Idle
  /\ o \in {"ok", "throw"}
  /\ MayFault(o)
  /\ \E j \in JobIds :
       /\ jobs[j].status = "none"
       /\ \A k \in JobIds : k < j => jobs[k].status # "none"
       /\ jobs' = createJob(jobs, j, rid, ids)
       /\ pc' = [pc EXCEPT ![j] = IF o = "ok" THEN "running" ELSE "catch"]
       /\ enqueueResp' = [enqueueResp EXCEPT ![j] = jobs'[j].status]
       /\ escaped' = [escaped EXCEPT ![j] = o # "ok"]
  /\ faults' = FaultCount(o)
  /\ UNCHANGED <<coverLetters, idx, results, resume, jds, genMode, published, outcomes>>
  /\ UNCHANGED <<wsVars, quotaVars, apiKey, extVars>>
  /\ UNCHANGED svcVars

\* ------------------------------------------- GET /api/jobs/:id
GetStatus(j) ==
  /\ Idle
  /\ getResp' = [id |-> j, status |-> jobs[j].status, artifacts |-> jobs[j].artifacts]
  /\ UNCHANGED <<jobs, coverLetters, pc, idx, results, resume, jds, genMode,
                 published, enqueueResp, faults>>
  /\ UNCHANGED <<wsVars, quotaVars, apiKey, extVars>>
  /\ UNCHANGED <<outcomes, escaped>>
  /\ UNCHANGED svcVars

\* ------------------------------------------- processBatchCoverLetters
\* await storage.updateJobStatus(jobId, "running")
ProcRunning(j, o) ==
  /\ getResp' = NoResponse
  /\ pc[j] = "running"
  /\ o \in UpdateOutcomes
  /\ MayFault(o)
  /\ jobs' = IF Written(o) THEN updateJobStatus(jobs, j, "running", NoArtifacts) ELSE jobs
  /\ pc' = [pc EXCEPT ![j] = IF o = "ok" THEN "load" ELSE "catch"]
  /\ faults' = FaultCount(o)
  /\ UNCHANGED <<coverLetters, idx, results, resume, jds, genMode, published,
                 enqueueResp>>
  /\ UNCHANGED <<wsVars, quotaVars, apiKey, extVars>>
  /\ escaped' = [escaped EXCEPT ![j] = @ \/ o # "ok"]
  /\ UNCHANGED outcomes
  /\ UNCHANGED svcVars

\* const [resume, ...jds] = await Promise.all([getResume, ...getJobDescription])
ProcLoad(j, o) ==
  /\ getResp' = NoResponse
  /\ pc[j] = "load"
  /\ o \in {"ok", "throw"}
  /\ MayFault(o)
  /\ IF o = "ok"
       THEN /\ resume' = [resume EXCEPT ![j] = jobs[j].resumeId \in StoredResumes]
            /\ jds' = [jds EXCEPT ![j] =
                         [k \in 1..Len(jobs[j].jdIds) |-> jobs[j].jdIds[k] \in StoredJds]]
            /\ pc' = [pc EXCEPT ![j] = "check"]
       ELSE /\ pc' = [pc EXCEPT ![j] = "catch"]
            /\ UNCHANGED <<resume, jds>>
  /\ faults' = FaultCount(o)
  /\ UNCHANGED <<jobs, coverLetters, idx, results, genMode, published,
                 enqueueResp>>
  /\ UNCHANGED <<wsVars, quotaVars, apiKey, extVars>>
  /\ escaped' = [escaped EXCEPT ![j] = @ \/ o # "ok"]
  /\ UNCHANGED outcomes
  /\ UNCHANGED svcVars

\* if (!resume) { await updateJobStatus(jobId, "error", {error: "Resume not found"}); return; }
ProcResumeMissing(j, o) ==
  /\ getResp' = NoResponse
  /\ pc[j] = "check"
  /\ ~resume[j]
  /\ o \in UpdateOutcomes
  /\ MayFault(o)
  /\ jobs' = IF Written(o)
               THEN updateJobStatus(jobs, j, "error", ErrorArtifacts("Resume not found"))
               ELSE jobs
  /\ pc' = [pc EXCEPT ![j] = IF o = "ok" THEN "done" ELSE "catch"]
  /\ faults' = FaultCount(o)
  /\ UNCHANGED <<coverLetters, idx, results, resume, jds, genMode, published,
                 enqueueResp>>
  /\ UNCHANGED <<wsVars, quotaVars, apiKey, extVars>>
  /\ escaped' = [escaped EXCEPT ![j] = @ \/ o # "ok"]
  /\ UNCHANGED outcomes
  /\ UNCHANGED svcVars

\* const results = []; for (let i = 0; ...
ProcEnterLoop(j) ==
  /\ getResp' = NoResponse
  /\ pc[j] = "check"
  /\ resume[j]
  /\ results' = [results EXCEPT ![j] = <<>>]
  /\ idx' = [idx EXCEPT ![j] = 0]
  /\ pc' = [pc EXCEPT ![j] = "loop"]
  /\ UNCHANGED <<jobs, coverLetters, resume, jds, genMode, published,
                 enqueueResp, faults>>
  /\ UNCHANGED <<wsVars, quotaVars, apiKey, extVars>>
  /\ UNCHANGED <<outcomes, escaped>>
  /\ UNCHANGED svcVars

\* mutant: the loop steps over the next target
LoopNextSkipping(i) == i + 2
\* for (...; i++)
LoopNext(i) == i + 1

\* if (!jd) continue;
SkipMissing(j) ==
  /\ getResp' = NoResponse
  /\ pc[j] = "loop"
  /\ idx[j] < Len(jds[j])
  /\ ~jds[j][idx[j] + 1]
  /\ idx' = [idx EXCEPT ![j] = LoopNext(idx[j])]
  /\ UNCHANGED <<jobs, coverLetters, pc, results, resume, jds, genMode, published,
                 enqueueResp, faults>>
  /\ UNCHANGED <<wsVars, quotaVars, apiKey, extVars>>
  /\ UNCHANGED <<outcomes, escaped>>
  /\ UNCHANGED svcVars

\* broadcast the "generating" event, then call generateCoverLetter, which
\* (gemini-enhanced.ts generateCoverLetterWithQuota) uses the mock generator
\* without a key or without quota and otherwise counts and issues a call
StartTarget(j) ==
  /\ getResp' = NoResponse
  /\ pc[j] = "loop"
  /\ idx[j] < Len(jds[j])
  /\ jds[j][idx[j] + 1]
  /\ LET ev == GeneratingEvent(idx[j], Len(jds[j]), jobs[j].jdIds[idx[j] + 1])
         route == EnhRoute(apiKey, enhCount, enhResetDate, today)
         cnt == checkQuotaLimitEnhCount(enhCount, enhResetDate, today)
     IN /\ inbox' = broadcastToChannel(inbox, BatchChannel(j), ev)
        /\ published' = [published EXCEPT ![j] = Append(@, ev)]
        /\ IF route = "mock-nokey"
             THEN UNCHANGED <<enhCount, enhResetDate>>
             ELSE /\ enhResetDate' = today
                  /\ enhCount' = IF route = "api" THEN incrementQuotaCount(cnt) ELSE cnt
        /\ apiCalls' = IF route = "api" THEN apiCalls + 1 ELSE apiCalls
        /\ enhLast' = route
        /\ genMode' = [genMode EXCEPT ![j] = IF route = "api" THEN "api" ELSE "mock"]
  /\ pc' = [pc EXCEPT ![j] = "gen"]
  /\ UNCHANGED <<jobs, coverLetters, idx, results, resume, jds, enqueueResp, faults>>
  /\ UNCHANGED <<wsConnections, readyState, today, atsCount, atsResetDate, score, apiKey, extVars>>
  /\ UNCHANGED <<outcomes, escaped>>
  /\ UNCHANGED svcVars

SuccessEntry(jd, cover) == [jdId |-> jd, success |-> TRUE, coverId |-> cover, error |-> ""]
\* mutant: the catch of the per-target try reports the target as a success
FailureEntryAsSuccess(jd) == [jdId |-> jd, success |-> TRUE, coverId |-> 0, error |-> "Generation failed"]
FailureEntry(jd) == [jdId |-> jd, success |-> FALSE, coverId |-> 0, error |-> "Generation failed"]

\* generateCoverLetter settles; on success storage.createCoverLetter and
\* results.push({success: true}); on a rejection of either, the catch pushes
\* {success: false}; then the one second delay is started
GenOutcomes == {"ok", "genfail", "storefail"}
GenDone(j, o) ==
  /\ getResp' = NoResponse
  /\ pc[j] = "gen"
  /\ genMode[j] = "mock" \/ Idle
  /\ o \in GenOutcomes
  /\ LET jd == jobs[j].jdIds[idx[j] + 1]
     IN IF o = "ok"
          THEN /\ coverLetters' = Append(coverLetters, [jdId |-> jd, resumeId |-> jobs[j].resumeId])
               /\ results' = [results EXCEPT ![j] = Append(@, SuccessEntry(jd, Len(coverLetters) + 1))]
          ELSE /\ results' = [results EXCEPT ![j] = Append(@, FailureEntry(jd))]
               /\ UNCHANGED coverLetters
  /\ genMode' = [genMode EXCEPT ![j] = "none"]
  /\ pc' = [pc EXCEPT ![j] = "delay"]
  /\ UNCHANGED <<jobs, idx, resume, jds, published, enqueueResp, faults>>
  /\ UNCHANGED <<wsVars, quotaVars, apiKey, extVars>>
  /\ outcomes' = [outcomes EXCEPT ![j] = Append(@, o = "ok")]
  /\ UNCHANGED escaped
  /\ UNCHANGED svcVars

\* await new Promise(resolve => setTimeout(resolve, 1000)); i++
TimerFire(j) ==
  /\ getResp' = NoResponse
  /\ pc[j] = "delay"
  /\ Idle
  /\ idx' = [idx EXCEPT ![j] = LoopNext(idx[j])]
  /\ pc' = [pc EXCEPT ![j] = "loop"]
  /\ UNCHANGED <<jobs, coverLetters, results, resume, jds, genMode, published,
                 enqueueResp, faults>>
  /\ UNCHANGED <<wsVars, quotaVars, apiKey, extVars>>
  /\ UNCHANGED <<outcomes, escaped>>
  /\ UNCHANGED svcVars

\* after the loop: broadcast {progress: 100, status: "completed", results},
\* then await updateJobStatus(jobId, "completed", { results })
Finish(j, o) ==
  /\ getResp' = NoResponse
  /\ pc[j] = "loop"
  /\ idx[j] >= Len(jds[j])
  /\ o \in UpdateOutcomes
  /\ MayFault(o)
  /\ inbox' = broadcastToChannel(inbox, BatchChannel(j), CompletedEvent(results[j]))
  /\ published' = [published EXCEPT ![j] = Append(@, CompletedEvent(results[j]))]
  /\ jobs' = IF Written(o)
               THEN updateJobStatus(jobs, j, "completed", ResultArtifacts(results[j]))
               ELSE jobs
  /\ pc' = [pc EXCEPT ![j] = IF o = "ok" THEN "done" ELSE "catch"]
  /\ faults' = FaultCount(o)
  /\ UNCHANGED <<coverLetters, idx, results, resume, jds, genMode,
                 enqueueResp>>
  /\ UNCHANGED <<wsConnections, readyState, quotaVars, apiKey, extVars>>
  /\ escaped' = [escaped EXCEPT ![j] = @ \/ o # "ok"]
  /\ UNCHANGED outcomes
  /\ UNCHANGED svcVars

\* catch (error) { await updateJobStatus(jobId, "error", { error: error.message }) }
\* a rejection of this call is not handled by anything
ProcCatch(j, o) ==
  /\ getResp' = NoResponse
  /\ pc[j] = "catch"
  /\ o \in UpdateOutcomes
  /\ MayFault(o)
  /\ jobs' = IF Written(o)
               THEN updateJobStatus(jobs, j, "error", ErrorArtifacts("exception"))
               ELSE jobs
  /\ pc' = [pc EXCEPT ![j] = IF o = "ok" THEN "done" ELSE "rejected"]
  /\ faults' = FaultCount(o)
  /\ UNCHANGED <<coverLetters, idx, results, resume, jds, genMode, published,
                 enqueueResp>>
  /\ UNCHANGED <<wsVars, quotaVars, apiKey, extVars>>
  /\ UNCHANGED <<outcomes, escaped>>
  /\ UNCHANGED svcVars

\* ------------------------------------------- WebSocket server
\* wss.on('connection')
WsConnect(c) ==
  /\ getResp' = NoResponse
  /\ Idle
  /\ readyState[c] = "none"
  /\ \A k \in Conns : k < c => readyState[k] # "none"
  /\ readyState' = [readyState EXCEPT ![c] = "OPEN"]
  /\ wsLast' = NoWsMessage
  /\ atsGet' = NoAtsResponse
  /\ UNCHANGED <<wsConnections, inbox>>
  /\ UNCHANGED <<procVars, quotaVars, apiKey, atsRoute, atsPublished, atsScores, det>>
  /\ UNCHANGED svcVars

\* ws.on('message'): parse, and with a channel create its set if absent and add ws
WsMessage(c, m) ==
  /\ getResp' = NoResponse
  /\ Idle
  /\ readyState[c] = "OPEN"
  /\ wsConnections' = IF ParsedChannel(m) # NoChannel
                        THEN Subscribe(wsConnections, c, ParsedChannel(m))
                        ELSE wsConnections
  /\ wsLast' = [conn |-> IF ParsedChannel(m) # NoChannel THEN c ELSE 0, msg |-> m]
  /\ atsGet' = NoAtsResponse
  /\ UNCHANGED <<readyState, inbox>>
  /\ UNCHANGED <<procVars, quotaVars, apiKey, atsRoute, atsPublished, atsScores, det>>
  /\ UNCHANGED svcVars

\* the peer's close frame arrives: readyState is CLOSING until 'close' is emitted
WsClosing(c) ==
  /\ getResp' = NoResponse
  /\ Idle
  /\ readyState[c] = "OPEN"
  /\ readyState' = [readyState EXCEPT ![c] = "CLOSING"]
  /\ wsLast' = NoWsMessage
  /\ atsGet' = NoAtsResponse
  /\ UNCHANGED <<wsConnections, inbox>>
  /\ UNCHANGED <<procVars, quotaVars, apiKey, atsRoute, atsPublished, atsScores, det>>
  /\ UNCHANGED svcVars

\* ws.on('close'): delete ws from every channel's set (the sets stay)
WsClose(c) ==
  /\ getResp' = NoResponse
  /\ Idle
  /\ readyState[c] \in {"OPEN", "CLOSING"}
  /\ readyState' = [readyState EXCEPT ![c] = "CLOSED"]
  /\ wsConnections' = Unsubscribe(wsConnections, c)
  /\ wsLast' = NoWsMessage
  /\ atsGet' = NoAtsResponse
  /\ UNCHANGED inbox
  /\ UNCHANGED <<procVars, quotaVars, apiKey, atsRoute, atsPublished, atsScores, det>>
  /\ UNCHANGED svcVars

Next ==
  \/ \E rid \in ResumeIds, ids \in TargetLists, o \in {"ok", "throw"} : Enqueue(rid, ids, o)
  \/ \E j \in JobIds : GetStatus(j)
  \/ \E j \in JobIds, o \in UpdateOutcomes : ProcRunning(j, o)
  \/ \E j \in JobIds, o \in {"ok", "throw"} : ProcLoad(j, o)
  \/ \E j \in JobIds, o \in UpdateOutcomes : ProcResumeMissing(j, o)
  \/ \E j \in JobIds : ProcEnterLoop(j)
  \/ \E j \in JobIds : SkipMissing(j)
  \/ \E j \in JobIds : StartTarget(j)
  \/ \E j \in JobIds, o \in GenOutcomes : GenDone(j, o)
  \/ \E j \in JobIds : TimerFire(j)
  \/ \E j \in JobIds, o \in UpdateOutcomes : Finish(j, o)
  \/ \E j \in JobIds, o \in UpdateOutcomes : ProcCatch(j, o)

Spec == Init /\ [][Next]_vars

\* ======================================================== job orchestrator
StatusOf(j) == jobs[j].status
Created(j) == jobs[j].status # "none"
CompletedEvents(j) == {p \in 1..Len(published[j]) : published[j][p].status = "completed"}
ErrorEvents(j) == {p \in 1..Len(published[j]) : published[j][p].status = "error"}
\* the targets of job j that resolve to a stored job description
Resolvable(j) == {k \in 1..Len(jobs[j].jdIds) : jobs[j].jdIds[k] \in StoredJds}

\* C1: every change of a job's status follows pending -> running ->
\* {completed, error}; a job is created in pending and a completed or error
\* status is never changed again.
C1_StatusChain ==
  [][\A j \in JobIds :
       jobs'[j].status # jobs[j].status =>
         <<jobs[j].status, jobs'[j].status>> \in
           {<<"none", "pending">>, <<"pending", "running">>,
            <<"running", "completed">>, <<"running", "error">>}]_vars

\* C2: a failing per-target operation is recorded and never aborts the batch:
\* every handled target has one entry whose success flag says how its operation
\* ended, a job only gets status error from a missing resume or an exception
\* outside the per-target try, and a batch that ends without such an exception
\* has handled every resolvable target and is completed.
C2_FailureNeverAborts ==
  \A j \in JobIds :
    /\ Len(results[j]) = Len(outcomes[j])
    /\ \A k \in 1..Len(results[j]) : results[j][k].success = outcomes[j][k]
    /\ StatusOf(j) = "error" => (escaped[j] \/ jobs[j].resumeId \notin StoredResumes)
    /\ (pc[j] = "done" /\ ~escaped[j] /\ jobs[j].resumeId \in StoredResumes) =>
         /\ StatusOf(j) = "completed"
         /\ Len(outcomes[j]) = Cardinality(Resolvable(j))
         /\ jobs[j].artifacts.results = results[j]

\* three targets, the second fails, the job is completed with one false and
\* two true entries
C2_Witness ==
  \E j \in JobIds :
    /\ StatusOf(j) = "completed"
    /\ Len(jobs[j].artifacts.results) = 3
    /\ outcomes[j] = <<TRUE, FALSE, TRUE>>
    /\ [k \in 1..3 |-> jobs[j].artifacts.results[k].success] = <<TRUE, FALSE, TRUE>>

\* C3: the results stored with a completed job hold exactly one entry per
\* target id of the request, in request order (unresolvable ids included).
C3_OneEntryPerTarget ==
  \A j \in JobIds :
    StatusOf(j) = "completed" =>
      [k \in 1..Len(jobs[j].artifacts.results) |-> jobs[j].artifacts.results[k].jdId]
        = jobs[j].jdIds

C5_ErrorEventPublished ==
  \A j \in JobIds : StatusOf(j) = "error" => ErrorEvents(j) # {}

\* C6: a job whose resume does not exist is never completed, has no event
\* published, no per-target operation invoked and no cover letter stored; when
\* Process ends without a storage exception the job went running -> error with
\* the reason "Resume not found" in its artifacts, and with one the catch
\* records an error reason.
C6_MissingResume ==
  /\ [](\A j \in JobIds :
          (Created(j) /\ jobs[j].resumeId \notin StoredResumes) =>
            /\ StatusOf(j) # "completed"
            /\ published[j] = <<>>
            /\ outcomes[j] = <<>>
            /\ \A k \in 1..Len(coverLetters) : coverLetters[k].resumeId # jobs[j].resumeId
            /\ (pc[j] = "done" /\ ~escaped[j]) =>
                 (StatusOf(j) = "error" /\ jobs[j].artifacts = [kind |-> "error",
                     error |-> "Resume not found", results |-> <<>>])
            /\ (pc[j] = "done" /\ escaped[j]) =>
                 (StatusOf(j) = "error" /\ jobs[j].artifacts.kind = "error"
                    /\ jobs[j].artifacts.error # ""))
  /\ [][\A j \in JobIds :
          (jobs[j].resumeId \notin StoredResumes /\ ~escaped[j]
             /\ jobs'[j].status = "error" /\ jobs[j].status # "error")
            => jobs[j].status = "running"]_vars

C6_Witness ==
  \E j \in JobIds :
    /\ jobs[j].resumeId \notin StoredResumes
    /\ pc[j] = "done"
    /\ ~escaped[j]
    /\ StatusOf(j) = "error"
    /\ jobs[j].artifacts.error = "Resume not found"

\* C7: at most one event with status "completed" is published per job; it has
\* progress 100, is the last event and carries the whole results list; a
\* completed job has exactly that one event and stores the same results; a
\* batch whose loop ends without a storage exception becomes completed.
C7_CompletedEvent ==
  \A j \in JobIds :
    /\ Cardinality(CompletedEvents(j)) <= 1
    /\ \A p \in CompletedEvents(j) :
         /\ p = Len(published[j])
         /\ published[j][p].progress = 100
         /\ published[j][p].results = results[j]
         /\ Len(published[j][p].results) = Len(outcomes[j])
    /\ StatusOf(j) = "completed" =>
         /\ Cardinality(CompletedEvents(j)) = 1
         /\ \A p \in CompletedEvents(j) :
              jobs[j].artifacts = [kind |-> "results", error |-> "",
                                   results |-> published[j][p].results]
    /\ (CompletedEvents(j) # {} /\ pc[j] = "done" /\ ~escaped[j]) => StatusOf(j) = "completed"

C7_Witness ==
  \E j \in JobIds :
    /\ StatusOf(j) = "completed"
    /\ Len(published[j]) >= 3
    /\ published[j][Len(published[j])].status = "completed"
    /\ Len(published[j][Len(published[j])].results) = 2
    /\ jobs[j].artifacts.results = published[j][Len(published[j])].results

\* ------------------------------------------- the quota gate and its users
InitQuota ==
  /\ jobs = [j \in JobIds |-> NoJob]
  /\ coverLetters = <<>>
  /\ pc = [j \in JobIds |-> "none"]
  /\ idx = [j \in JobIds |-> 0]
  /\ results = [j \in JobIds |-> <<>>]
  /\ resume = [j \in JobIds |-> FALSE]
  /\ jds = [j \in JobIds |-> <<>>]
  /\ genMode = [j \in JobIds |-> "none"]
  /\ wsConnections = <<>>
  /\ readyState = [c \in Conns |-> "none"]
  /\ inbox = [c \in Conns |-> <<>>]
  /\ published = [j \in JobIds |-> <<>>]
  /\ enqueueResp = [j \in JobIds |-> "none"]
  /\ getResp = NoResponse
  /\ outcomes = [j \in JobIds |-> <<>>]
  /\ escaped = [j \in JobIds |-> FALSE]
  /\ faults = 0
  /\ apiKey \in ApiKeys
  /\ today = 0
  /\ atsCount = 0
  /\ atsResetDate = 0
  /\ enhCount = 0
  /\ enhResetDate = 0
  /\ apiCalls = 0
  /\ score = IdleScore
  /\ enhLast = "none"
  /\ atsRoute = NoAtsRequest
  /\ atsPublished = <<>>
  /\ atsScores = {}
  /\ atsGet = NoAtsResponse
  /\ wsLast = NoWsMessage
  /\ det = IdleDet
  /\ embeddingCache = {}
  /\ embCall = IdleEmbed
  /\ san = IdleSan
  /\ emb = IdleEmb
  /\ kw = IdleKw
  /\ InitClient

\* the calendar day of new Date().toDateString() changes
NewDay ==
  /\ today < MaxDay
  /\ today' = today + 1
  /\ apiCalls' = 0
  /\ UNCHANGED <<atsCount, atsResetDate, enhCount, enhResetDate, score, enhLast>>
  /\ UNCHANGED <<jobVars, wsVars, apiKey, extVars>>
  /\ UNCHANGED svcVars

\* computeGeminiATSScore(resume, jdText) up to `await model.generateContent`:
\* without a usable key or without quota it returns getFallbackATSScore, else
\* it counts the request and issues it
computeGeminiATSScoreStart(in) ==
  IF ~AtsConfigured(apiKey)
    THEN /\ score' = [state |-> "answered", input |-> in, route |-> "fallback-nokey",
                      result |-> getFallbackATSScore(in), analysis |-> NoAnalysis]
         /\ UNCHANGED <<atsCount, atsResetDate, apiCalls>>
    ELSE LET cnt == checkQuotaLimitAtsCount(atsCount, atsResetDate, today)
         IN /\ atsResetDate' = today
            /\ IF ~checkQuotaLimitAts(atsCount, atsResetDate, today)
                 THEN /\ score' = [state |-> "answered", input |-> in,
                                   route |-> "fallback-noquota",
                                   result |-> getFallbackATSScore(in),
                                   analysis |-> NoAnalysis]
                      /\ atsCount' = cnt
                      /\ UNCHANGED apiCalls
                 ELSE /\ score' = [state |-> "calling", input |-> in,
                                   route |-> "assisted", result |-> NoResult,
                                   analysis |-> NoAnalysis]
                      /\ atsCount' = incrementQuotaCount(cnt)
                      /\ apiCalls' = apiCalls + 1

ScoreStart(in) ==
  /\ score.state # "calling"
  /\ computeGeminiATSScoreStart(in)
  /\ UNCHANGED <<today, enhCount, enhResetDate, enhLast>>
  /\ UNCHANGED <<jobVars, wsVars, apiKey, extVars>>
  /\ UNCHANGED svcVars

\* the Gemini call of computeGeminiATSScore settles: a rejection or an answer
\* without parseable JSON gives getFallbackATSScore, a parsed answer is sanitized
ScoreFailures == {"fallback-error", "fallback-unparseable"}
computeGeminiATSScoreCatch(sc, why) ==
  [sc EXCEPT !.state = "answered", !.route = why, !.result = getFallbackATSScore(sc.input)]
computeGeminiATSScoreParsed(sc, a) ==
  [sc EXCEPT !.state = "answered", !.result = sanitize(a), !.analysis = a]

ScoreFailed(why) ==
  /\ score.state = "calling"
  /\ why \in ScoreFailures
  /\ score' = computeGeminiATSScoreCatch(score, why)
  /\ UNCHANGED <<today, atsCount, atsResetDate, enhCount, enhResetDate, apiCalls, enhLast>>
  /\ UNCHANGED <<jobVars, wsVars, apiKey, extVars>>
  /\ UNCHANGED svcVars

ScoreParsed(a) ==
  /\ score.state = "calling"
  /\ score' = computeGeminiATSScoreParsed(score, a)
  /\ UNCHANGED <<today, atsCount, atsResetDate, enhCount, enhResetDate, apiCalls, enhLast>>
  /\ UNCHANGED <<jobVars, wsVars, apiKey, extVars>>
  /\ UNCHANGED svcVars

\* generateCoverLetterWithQuota (gemini-enhanced.ts) up to its Gemini call
GenerateCoverLetter ==
  /\ LET route == EnhRoute(apiKey, enhCount, enhResetDate, today)
         cnt == checkQuotaLimitEnhCount(enhCount, enhResetDate, today)
     IN /\ IF route = "mock-nokey"
             THEN UNCHANGED <<enhCount, enhResetDate>>
             ELSE /\ enhResetDate' = today
                  /\ enhCount' = IF route = "api" THEN incrementQuotaCount(cnt) ELSE cnt
        /\ apiCalls' = IF route = "api" THEN apiCalls + 1 ELSE apiCalls
        /\ enhLast' = route
  /\ UNCHANGED <<today, atsCount, atsResetDate, score>>
  /\ UNCHANGED <<jobVars, wsVars, apiKey, extVars>>
  /\ UNCHANGED svcVars

NextQuota ==
  \/ NewDay
  \/ \E in \in ScoreInputs : ScoreStart(in)
  \/ \E why \in {"fallback-error", "fallback-unparseable"} : ScoreFailed(why)
  \/ \E a \in Analyses : ScoreParsed(a)
  \/ GenerateCoverLetter

SpecQuota == InitQuota /\ [][NextQuota]_vars

\* ------------------------------------------- POST /api/ats/score
\* the (resumeId, jdId) a request body can carry ("" : the field is missing)
AtsRequests ==
  (StoredResumes \X StoredJds) \cup ((ResumeIds \ StoredResumes) \X StoredJds)
    \cup ({""} \X StoredJds)

\* the two broadcastToChannel calls and res.json({ success: true, ... })
AtsRespond(rid, jid, r) ==
  LET channel == AtsChannel(rid, jid)
      events == ScoreEvents(r)
  IN /\ inbox' = broadcastToChannel(broadcastToChannel(inbox, channel, events[1]),
                                    channel, events[2])
     /\ atsPublished' = atsPublished \o <<[channel |-> channel, data |-> events[1]],
                                          [channel |-> channel, data |-> events[2]]>>
     /\ atsRoute' = [stage |-> "done", resumeId |-> rid, jdId |-> jid, http |-> 200,
                     body |-> r,
                     count |-> IF atsRoute.stage = "calling" THEN atsRoute.count
                                                               ELSE atsRoute.count + 1]

\* the handler up to `await model.generateContent` (or to its response):
\* 400 without an id, 500 when the store raises, 404 without the rows, else
\* computeGeminiATSScore; a fallback answer is broadcast and sent at once.
\* count: the score computations started so far
AtsScore(rid, jid, o) ==
  /\ getResp' = NoResponse
  /\ Idle
  /\ atsRoute.stage # "calling"
  /\ atsRoute.count < MaxScoreRequests
  /\ o \in {"ok", "throw"}
  /\ IF rid = "" \/ jid = "" \/ o = "throw" \/ rid \notin StoredResumes \/ jid \notin StoredJds
       THEN /\ atsRoute' = [stage |-> "done", resumeId |-> rid, jdId |-> jid,
                            http |-> IF rid = "" \/ jid = "" THEN 400
                                     ELSE IF o = "throw" THEN 500 ELSE 404,
                            body |-> NoResult, count |-> atsRoute.count]
            /\ UNCHANGED <<score, atsCount, atsResetDate, apiCalls, inbox, atsPublished>>
       ELSE /\ computeGeminiATSScoreStart(InputOf(rid, jid))
            /\ IF score'.state = "answered"
                 THEN AtsRespond(rid, jid, score'.result)
                 ELSE /\ atsRoute' = [stage |-> "calling", resumeId |-> rid, jdId |-> jid,
                                      http |-> 0, body |-> NoResult,
                                      count |-> atsRoute.count + 1]
                      /\ UNCHANGED <<inbox, atsPublished>>
  /\ wsLast' = NoWsMessage
  /\ atsGet' = NoAtsResponse
  /\ UNCHANGED procVars
  /\ UNCHANGED <<wsConnections, readyState, today, enhCount, enhResetDate, enhLast>>
  /\ UNCHANGED <<apiKey, atsScores, det>>
  /\ UNCHANGED svcVars

\* how the Gemini call can settle: rejected, answered without parseable JSON,
\* answered with a JSON object
SettleOutcomes ==
  {[route |-> why, analysis |-> NoAnalysis] : why \in ScoreFailures}
    \cup {[route |-> "assisted", analysis |-> a] : a \in Analyses}

\* the one of them the score route is run with: the answer that is in contract
\* (without a key the route broadcasts the fallback score)
RouteOutcomes ==
  {o \in SettleOutcomes : o.analysis.fields = ScoreFields /\ o.analysis.keywords <= 40}

\* the Gemini call settles and the handler runs to its response
AtsScoreSettle(o) ==
  /\ getResp' = NoResponse
  /\ Idle
  /\ atsRoute.stage = "calling"
  /\ o \in RouteOutcomes
  /\ score' = IF o.route \in ScoreFailures
                THEN computeGeminiATSScoreCatch(score, o.route)
                ELSE computeGeminiATSScoreParsed(score, o.analysis)
  /\ AtsRespond(atsRoute.resumeId, atsRoute.jdId, score'.result)
  /\ wsLast' = NoWsMessage
  /\ atsGet' = NoAtsResponse
  /\ UNCHANGED procVars
  /\ UNCHANGED <<wsConnections, readyState>>
  /\ UNCHANGED <<today, atsCount, atsResetDate, enhCount, enhResetDate, apiCalls, enhLast>>
  /\ UNCHANGED <<apiKey, atsScores, det>>
  /\ UNCHANGED svcVars

\* ------------------------------------------- GET /api/ats/score/:resumeId/:jdId
AtsRead(rid, jid, o) ==
  /\ getResp' = NoResponse
  /\ Idle
  /\ o \in {"ok", "throw"}
  /\ LET rows == getATSScore(atsScores, rid, jid)
     IN atsGet' = [http |-> IF o = "throw" THEN 500 ELSE IF rows = {} THEN 404 ELSE 200,
                   resumeId |-> rid, jdId |-> jid,
                   body |-> IF o = "ok" /\ rows # {} THEN (CHOOSE row \in rows : TRUE).result
                                                   ELSE NoResult]
  /\ wsLast' = NoWsMessage
  /\ UNCHANGED procVars
  /\ UNCHANGED <<wsVars, quotaVars>>
  /\ UNCHANGED <<apiKey, atsRoute, atsPublished, atsScores, det>>
  /\ UNCHANGED svcVars

NextWs ==
  \/ \E c \in Conns : WsConnect(c)
  \/ \E c \in Conns, m \in WsMessages : WsMessage(c, m)
  \/ \E c \in Conns : WsClosing(c)
  \/ \E c \in Conns : WsClose(c)
  \/ \E rq \in AtsRequests : AtsScore(rq[1], rq[2], "ok")
  \/ \E rq \in StoredResumes \X StoredJds : AtsScore(rq[1], rq[2], "throw")
  \/ \E o \in RouteOutcomes : AtsScoreSettle(o)
  \/ \E rid \in StoredResumes, jid \in StoredJds, o \in {"ok", "throw"} : AtsRead(rid, jid, o)

SpecWs == Init /\ [][NextWs]_vars

\* ------------------------------------------- the deterministic scorers
InitScore ==
  /\ jobs = [j \in JobIds |-> NoJob]
  /\ coverLetters = <<>>
  /\ pc = [j \in JobIds |-> "none"]
  /\ idx = [j \in JobIds |-> 0]
  /\ results = [j \in JobIds |-> <<>>]
  /\ resume = [j \in JobIds |-> FALSE]
  /\ jds = [j \in JobIds |-> <<>>]
  /\ genMode = [j \in JobIds |-> "none"]
  /\ wsConnections = <<>>
  /\ readyState = [c \in Conns |-> "none"]
  /\ inbox = [c \in Conns |-> <<>>]
  /\ published = [j \in JobIds |-> <<>>]
  /\ enqueueResp = [j \in JobIds |-> "none"]
  /\ getResp = NoResponse
  /\ outcomes = [j \in JobIds |-> <<>>]
  /\ escaped = [j \in JobIds |-> FALSE]
  /\ faults = 0
  /\ apiKey \in JobApiKeys
  /\ today = 0
  /\ atsCount = 0
  /\ atsResetDate = 0
  /\ enhCount = 0
  /\ enhResetDate = 0
  /\ apiCalls = 0
  /\ score = IdleScore
  /\ enhLast = "none"
  /\ atsRoute = NoAtsRequest
  /\ atsPublished = <<>>
  /\ atsScores = {}
  /\ atsGet = NoAtsResponse
  /\ wsLast = NoWsMessage
  /\ det \in {[IdleDet EXCEPT !.input = in] : in \in DetInputs}
  /\ embeddingCache = {}
  /\ embCall = IdleEmbed
  /\ san = IdleSan
  /\ emb = IdleEmb
  /\ kw = IdleKw
  /\ InitClient

\* getFallbackATSScore(resume, jdText) is called
DetFallback ==
  /\ LET r == getFallbackATSScore(det.input)
     IN det' = [det EXCEPT !.fn = "fallback", !.result = r,
                           !.first.fallback = IF @ = <<>> THEN <<[result |-> r, today |-> today]>>
                                                          ELSE @]
  /\ UNCHANGED <<jobVars, wsVars, quotaVars, apiKey>>
  /\ UNCHANGED <<atsRoute, atsPublished, atsScores, atsGet, wsLast>>
  /\ UNCHANGED svcVars

\* computeATSScore(resume, jdText) is called
DetEngine ==
  /\ LET r == computeATSScore(det.input)
     IN det' = [det EXCEPT !.fn = "engine", !.result = r,
                           !.first.engine = IF @ = <<>> THEN <<[result |-> r, today |-> today]>>
                                                        ELSE @]
  /\ UNCHANGED <<jobVars, wsVars, quotaVars, apiKey>>
  /\ UNCHANGED <<atsRoute, atsPublished, atsScores, atsGet, wsLast>>
  /\ UNCHANGED svcVars

NextScore ==
  \/ DetFallback
  \/ DetEngine
  \/ NewDay

SpecScore == InitScore /\ [][NextScore]_vars

\* ============================================================= quota gate
\* a computeGeminiATSScore call has run up to its first await (or returned)
ScoreStarted == score.state # "calling" /\ score' # score
\* a generateCoverLetterWithQuota call has run up to its first await
CoverStarted ==
  enhLast' # enhLast \/ enhCount' # enhCount \/ enhResetDate' # enhResetDate
KeyUsable == apiKey \notin {"", "default_key", "your_gemini_api_key_here"}
\* the counters as the day check of checkQuotaLimit leaves them
AtsCountToday == IF today = atsResetDate THEN atsCount ELSE 0
EnhCountToday == IF today = enhResetDate THEN enhCount ELSE 0

\* C8: with the limit 45, checkQuotaLimit answers true iff the count after the
\* day check is below 45 (so false once 45 requests were counted that day); a
\* check on a new day first sets the count to 0 and the reset date to today
\* and answers true.  Both counters never leave 0..45.
C8_QuotaGate ==
  /\ [](atsCount \in 0..45 /\ enhCount \in 0..45)
  /\ [][(ScoreStarted /\ KeyUsable) =>
          /\ (score'.state = "calling") = (AtsCountToday < 45)
          /\ atsResetDate' = today
          /\ atsCount' = IF AtsCountToday < 45 THEN AtsCountToday + 1 ELSE AtsCountToday
          /\ today # atsResetDate => (score'.state = "calling" /\ atsCount' = 1)]_vars
  /\ [][(CoverStarted /\ KeyUsable) =>
          /\ (enhLast' = "api") = (EnhCountToday < 45)
          /\ enhResetDate' = today
          /\ enhCount' = IF EnhCountToday < 45 THEN EnhCountToday + 1 ELSE EnhCountToday
          /\ today # enhResetDate => (enhLast' = "api" /\ enhCount' = 1)]_vars

\* after a day rollover reset the counter, 45 requests were counted on the
\* new day and the next check refused
C8_Witness ==
  /\ today = 1
  /\ atsResetDate = 1
  /\ atsCount = 45
  /\ score.state = "answered"
  /\ score.route = "fallback-noquota"

\* C9: the calls issued to Gemini by the whole process within one calendar
\* day never exceed 45.
C9_DailyCallsBounded == apiCalls <= 45

\* C10: with a usable key and no capacity computeGeminiATSScore answers with
\* the fallback score of its input, issues no call and leaves the counter
\* alone; without a usable key it answers with the fallback score and neither
\* the counter nor the reset date is touched, even on a new day.
C10_QuotaRouting ==
  [][ScoreStarted =>
       /\ (KeyUsable /\ AtsCountToday >= 45) =>
            /\ score'.state = "answered"
            /\ score'.route = "fallback-noquota"
            /\ score'.result = getFallbackATSScore(score'.input)
            /\ apiCalls' = apiCalls
            /\ atsCount' = atsCount
       /\ ~KeyUsable =>
            /\ score'.state = "answered"
            /\ score'.route = "fallback-nokey"
            /\ score'.result = getFallbackATSScore(score'.input)
            /\ UNCHANGED <<apiCalls, atsCount, atsResetDate>>]_vars

\* a score request refused by the quota was answered with the fallback score
\* after 45 calls had been issued that day
C10_Witness ==
  /\ KeyUsable
  /\ score.state = "answered"
  /\ score.route = "fallback-noquota"
  /\ score.result = getFallbackATSScore(score.input)
  /\ score.result.overall > 0
  /\ atsCount = 45
  /\ atsResetDate = today

\* ======================================================= assisted scorer
\* the Gemini call of a computeGeminiATSScore call has settled in this step
ScoreSettled == score.state = "calling" /\ score'.state = "answered"
\* the parsed answer carries all five sub-score objects
SchemaValid(a) == a.fields = ScoreFields

\* C11: when the assisted strategy fails (the call is rejected, the answer
\* holds no parseable JSON, or the parsed answer lacks sub-score fields) the
\* call answers with exactly the deterministic score of its input.
C11_FailureFallsBack ==
  [][(ScoreSettled /\ (score'.route \in ScoreFailures \/ ~SchemaValid(score'.analysis))) =>
       score'.result = getFallbackATSScore(score.input)]_vars

\* ================================================== deterministic scorer
\* C12 as stated: the five maxima written in the result are 40 / 25 / 15 /
\* 10 / 10 and every sub-score lies between 0 and the maximum written next to
\* it.
C12_Original ==
  det.fn # "none" =>
    LET r == det.result
    IN /\ r.totals = [keywords |-> 40, relevancy |-> 25, quantification |-> 15,
                      formatting |-> 10, readability |-> 10]
       /\ \A f \in ScoreFields : r[f] \in 0..r.totals[f]
       /\ r.overall = r.keywords + r.relevancy + r.quantification + r.formatting
                        + r.readability
       /\ r.overall \in 0..100

\* C12: every result of the deterministic strategy (computeATSScore, and
\* getFallbackATSScore, the fallback of computeGeminiATSScore) carries the
\* maxima 25 / 15 / 10 / 10 for relevancy, quantification, formatting and
\* readability and, next to the keyword score, the number of keywords of the
\* target instead of a maximum; the keyword score is an integer in 0..40,
\* every other sub-score an integer between 0 and its maximum, and the overall
\* is the sum of the five sub-scores and lies in 0..100.
C12_ScoreRanges ==
  det.fn # "none" =>
    LET r == det.result
    IN /\ r.totals = [keywords |-> det.input.total, relevancy |-> 25,
                      quantification |-> 15, formatting |-> 10, readability |-> 10]
       /\ r.keywords \in 0..40
       /\ \A f \in ScoreFields \ {"keywords"} : r[f] \in 0..r.totals[f]
       /\ r.overall = r.keywords + r.relevancy + r.quantification + r.formatting
                        + r.readability
       /\ r.overall \in 0..100

\* computeATSScore has scored a resume whose formatting deductions exceed the
\* ten points and whose keyword score caps the relevancy at 25
C12_Witness ==
  /\ det.fn = "engine"
  /\ det.result = computeATSScore(det.input)
  /\ ~det.input.contact
  /\ ~det.input.summary
  /\ ~det.input.skills
  /\ det.input.bad >= 12
  /\ det.result.formatting = 0
  /\ det.result.keywords = 40
  /\ det.result.totals.keywords = MaxKeywords
  /\ det.result.relevancy = 25

\* a deterministic scorer has been called in this step
DetCalled == det' # det

GeneratingEvents(j) == SelectSeq(published[j], LAMBDA e : e.status = "generating")
\* the position in the target list of the k-th target that resolves
NthResolvable(j, k) ==
  CHOOSE i \in Resolvable(j) : Cardinality({x \in Resolvable(j) : x <= i}) = k
\* the per-target operation of job j is in flight
InFlight(j) == pc[j] = "gen"

\* C20: the loop over the targets is strictly sequential: the generating events
\* and the result entries follow the order of the target list, the operations
\* started exceed the entries appended by one exactly while an operation is in
\* flight (so never by more than one), and what is in flight or was just
\* appended is the target at the loop index.
C20_Sequential ==
  \A j \in JobIds :
    (Created(j) /\ pc[j] \in {"loop", "gen", "delay", "finish", "done"}) =>
      LET g == GeneratingEvents(j)
      IN /\ Len(g) = Len(results[j]) + (IF InFlight(j) THEN 1 ELSE 0)
         /\ Len(g) <= Cardinality(Resolvable(j))
         /\ \A k \in 1..Len(g) :
              /\ g[k].current = jobs[j].jdIds[NthResolvable(j, k)]
              /\ g[k].progress = RoundPercent(NthResolvable(j, k) - 1, Len(jobs[j].jdIds))
         /\ \A k \in 1..Len(results[j]) :
              results[j][k].jdId = jobs[j].jdIds[NthResolvable(j, k)]
         /\ pc[j] \in {"gen", "delay"} =>
              /\ Len(g) >= 1
              /\ idx[j] + 1 = NthResolvable(j, Len(g))

\* the second operation of a job with three targets is in flight after the
\* first target's entry was appended as a failure
C20_Witness ==
  \E j \in JobIds :
    /\ Created(j)
    /\ Len(jobs[j].jdIds) = 3
    /\ Resolvable(j) = {1, 2, 3}
    /\ InFlight(j)
    /\ idx[j] = 1
    /\ Len(results[j]) = 1
    /\ ~results[j][1].success
    /\ Len(GeneratingEvents(j)) = 2

\* ===================================================== broadcast registry
\* POST /api/ats/score has broadcast in this step
AtsPublishedNow == Len(atsPublished') > Len(atsPublished)
\* the channel it broadcast on
PublishChannel == atsPublished'[Len(atsPublished')].channel
\* the connections in the set of a channel (none when the channel has no set)
Subscribers(ch) == IF ch \in DOMAIN wsConnections THEN wsConnections[ch] ELSE {}
\* the { channel, data } of the broadcasts of this step, in order
NewMessages == SubSeq(atsPublished', Len(atsPublished) + 1, Len(atsPublished'))
\* the 'close' event of connection c is handled in this step
ClosedNow(c) == readyState[c] # "CLOSED" /\ readyState'[c] = "CLOSED"

\* C13: a broadcast on a channel without a set or with an empty set raises
\* nothing (the request is answered 200), sends nothing and leaves the
\* registry as it is; nothing is kept for later: messages reach a connection
\* only in the step of a broadcast and only if it is in the channel's set at
\* that moment, so a connection that subscribes afterwards gets nothing of it.
C13_PublishNoSubscribers ==
  /\ [][AtsPublishedNow =>
          /\ wsConnections' = wsConnections
          /\ readyState' = readyState
          /\ atsRoute'.http = 200
          /\ Subscribers(PublishChannel) = {} => inbox' = inbox
          /\ \A c \in Conns : c \notin Subscribers(PublishChannel) => inbox'[c] = inbox[c]]_vars
  /\ [][~AtsPublishedNow => inbox' = inbox]_vars

\* the only connection subscribed to the score channel after the score was
\* broadcast on it, and has received nothing
C13_Witness ==
  /\ Len(atsPublished) = 2
  /\ readyState[1] = "OPEN"
  /\ \A c \in Conns \ {1} : readyState[c] = "none"
  /\ wsLast = [conn |-> 1, msg |-> [json |-> "object", channel |-> atsPublished[1].channel]]
  /\ Subscribers(atsPublished[1].channel) = {1}
  /\ inbox[1] = <<>>

\* C14 as stated: a broadcast sends the message to every connection in the
\* channel's set.
C14_Original ==
  [][AtsPublishedNow =>
       \A c \in Subscribers(PublishChannel) : inbox'[c] = inbox[c] \o NewMessages]_vars

\* C14: a broadcast sends the same {channel, data} message, once, to every
\* connection of the channel's set whose readyState is OPEN, and to no other
\* connection (a connection of the set that is closing is sent nothing).
C14_PublishToOpen ==
  [][AtsPublishedNow =>
       \A c \in Conns :
         inbox'[c] = IF c \in Subscribers(PublishChannel) /\ readyState[c] = "OPEN"
                       THEN inbox[c] \o NewMessages
                       ELSE inbox[c]]_vars

\* two open connections of the score channel were sent the same two messages,
\* each naming the channel
C14_Witness ==
  /\ Len(atsPublished) = 2
  /\ readyState[1] = "OPEN"
  /\ readyState[2] = "OPEN"
  /\ {1, 2} \subseteq Subscribers(atsPublished[1].channel)
  /\ inbox[1] = atsPublished
  /\ inbox[1][1].channel = AtsChannel("r1", "jd1")
  /\ inbox[2] = inbox[1]

\* C15: the 'close' handler removes the connection from every set and nobody
\* else from any; a closed connection is in no set and is sent nothing by any
\* later broadcast.
C15_UnsubscribeOnClose ==
  /\ [][\A c \in Conns : ClosedNow(c) =>
          wsConnections' = [ch \in DOMAIN wsConnections |-> wsConnections[ch] \ {c}]]_vars
  /\ [](\A c \in Conns : readyState[c] = "CLOSED" =>
          \A ch \in DOMAIN wsConnections : c \notin wsConnections[ch])
  /\ [][\A c \in Conns : readyState[c] = "CLOSED" => inbox'[c] = inbox[c]]_vars

\* connection 1 had joined the batch channel and was closed; connection 2 is
\* still in the score channel's set and was sent the score
C15_Witness ==
  /\ readyState[1] = "CLOSED"
  /\ readyState[2] = "OPEN"
  /\ BatchChannel(1) \in DOMAIN wsConnections
  /\ wsConnections[BatchChannel(1)] = {}
  /\ \E ch \in DOMAIN wsConnections : wsConnections[ch] = {2} /\ Len(inbox[2]) = 2
  /\ inbox[1] = <<>>

\* C16: a message that is not JSON, is JSON but no object, or is an object
\* without channel changes neither the registry nor the connection, which
\* stays open with its subscriptions; a well-formed subscribe message of any
\* open connection, before or after, puts it into the channel's set.
C16_MalformedIgnored ==
  /\ [][wsLast'.msg \in MalformedMessages =>
          UNCHANGED <<wsConnections, readyState, inbox>>]_vars
  /\ [][wsLast'.msg \in SubscribeMessages =>
          /\ readyState[wsLast'.conn] = "OPEN"
          /\ readyState' = readyState
          /\ wsConnections' = Subscribe(wsConnections, wsLast'.conn, wsLast'.msg.channel)
          /\ wsLast'.conn \in wsConnections'[wsLast'.msg.channel]]_vars

\* the JSON value 42 has just been sent on one of the connections, which are
\* all open, in the score channel's set and have been sent the score
C16_Witness ==
  /\ wsLast.msg = [json |-> "number", channel |-> NoChannel]
  /\ readyState[1] = "OPEN"
  /\ \A c \in Conns :
       readyState[c] # "none" =>
         /\ readyState[c] = "OPEN"
         /\ c \in Subscribers(AtsChannel("r1", "jd1"))
         /\ Len(inbox[c]) = 2

C18_ScorePersisted ==
  (/\ atsRoute.stage = "done"
   /\ atsRoute.http = 200
   /\ atsGet.http \in {200, 404}
   /\ atsGet.resumeId = atsRoute.resumeId
   /\ atsGet.jdId = atsRoute.jdId) =>
     /\ atsGet.http = 200
     /\ atsGet.body = atsRoute.body

EmbedStart(k) ==
  /\ embCall.state # "calling"
  /\ IF k \in embeddingCache
       THEN /\ embCall' = [state |-> "answered", key |-> k, route |-> "cache"]
            /\ UNCHANGED <<embeddingCache, enhCount, enhResetDate, apiCalls>>
       ELSE IF ~EnhConfigured(apiKey)
         THEN /\ embCall' = [state |-> "answered", key |-> k, route |-> "mock-nokey"]
              /\ embeddingCache' = embeddingCache \cup {k}
              /\ UNCHANGED <<enhCount, enhResetDate, apiCalls>>
         ELSE LET cnt == checkQuotaLimitEnhCount(enhCount, enhResetDate, today)
              IN /\ enhResetDate' = today
                 /\ IF ~checkQuotaLimitEnh(enhCount, enhResetDate, today)
                      THEN /\ embCall' = [state |-> "answered", key |-> k,
                                          route |-> "mock-noquota"]
                           /\ embeddingCache' = embeddingCache \cup {k}
                           /\ enhCount' = cnt
                           /\ UNCHANGED apiCalls
                      ELSE /\ embCall' = [state |-> "calling", key |-> k, route |-> "api"]
                           /\ enhCount' = incrementQuotaCount(cnt)
                           /\ apiCalls' = apiCalls + 1
                           /\ UNCHANGED embeddingCache
  /\ UNCHANGED <<today, atsCount, atsResetDate, score, enhLast>>
  /\ UNCHANGED <<jobVars, wsVars, apiKey, extVars, pureVars, clientVars>>

\* model.embedContent settles: the embedding is cached, or, in the catch, a
\* mock embedding is (the key is not cached by then)
EmbedSettle(o) ==
  /\ embCall.state = "calling"
  /\ o \in {"ok", "rejected"}
  /\ embCall' = [embCall EXCEPT !.state = "answered",
                                !.route = IF o = "ok" THEN "api" ELSE "api-rejected"]
  /\ embeddingCache' = embeddingCache \cup {embCall.key}
  /\ UNCHANGED <<jobVars, wsVars, quotaVars, apiKey, extVars, pureVars, clientVars>>

\* the process on a day on which each service has counted no request yet, all
\* but one of its 45, or all of them
InitConsume ==
  /\ jobs = [j \in JobIds |-> NoJob]
  /\ coverLetters = <<>>
  /\ pc = [j \in JobIds |-> "none"]
  /\ idx = [j \in JobIds |-> 0]
  /\ results = [j \in JobIds |-> <<>>]
  /\ resume = [j \in JobIds |-> FALSE]
  /\ jds = [j \in JobIds |-> <<>>]
  /\ genMode = [j \in JobIds |-> "none"]
  /\ wsConnections = <<>>
  /\ readyState = [c \in Conns |-> "none"]
  /\ inbox = [c \in Conns |-> <<>>]
  /\ published = [j \in JobIds |-> <<>>]
  /\ enqueueResp = [j \in JobIds |-> "none"]
  /\ getResp = NoResponse
  /\ outcomes = [j \in JobIds |-> <<>>]
  /\ escaped = [j \in JobIds |-> FALSE]
  /\ faults = 0
  /\ apiKey \in ApiKeys
  /\ today = 0
  /\ atsCount \in {0, MAX_DAILY_REQUESTS - 1, MAX_DAILY_REQUESTS}
  /\ atsResetDate = 0
  /\ enhCount \in {0, MAX_DAILY_REQUESTS - 1, MAX_DAILY_REQUESTS}
  /\ enhResetDate = 0
  /\ apiCalls = atsCount + enhCount
  /\ score = IdleScore
  /\ enhLast = "none"
  /\ atsRoute = NoAtsRequest
  /\ atsPublished = <<>>
  /\ atsScores = {}
  /\ atsGet = NoAtsResponse
  /\ wsLast = NoWsMessage
  /\ det = IdleDet
  /\ embeddingCache = {}
  /\ embCall = IdleEmbed
  /\ san = IdleSan
  /\ emb = IdleEmb
  /\ kw = IdleKw
  /\ InitClient

NextConsume ==
  \/ NewDay
  \/ \E in \in ScoreInputs : ScoreStart(in)
  \/ ScoreFailed("fallback-error")
  \/ \E k \in EmbedKeys : EmbedStart(k)
  \/ \E o \in {"ok", "rejected"} : EmbedSettle(o)

SpecConsume == InitConsume /\ [][NextConsume]_vars

\* a generateEmbeddingWithCache call has run up to its first await (or returned)
EmbedStarted == embCall.state # "calling" /\ embCall' # embCall
\* the day has not changed in this step
SameDay == today' = today

InitSanitize ==
  /\ jobs = [j \in JobIds |-> NoJob]
  /\ coverLetters = <<>>
  /\ pc = [j \in JobIds |-> "none"]
  /\ idx = [j \in JobIds |-> 0]
  /\ results = [j \in JobIds |-> <<>>]
  /\ resume = [j \in JobIds |-> FALSE]
  /\ jds = [j \in JobIds |-> <<>>]
  /\ genMode = [j \in JobIds |-> "none"]
  /\ wsConnections = <<>>
  /\ readyState = [c \in Conns |-> "none"]
  /\ inbox = [c \in Conns |-> <<>>]
  /\ published = [j \in JobIds |-> <<>>]
  /\ enqueueResp = [j \in JobIds |-> "none"]
  /\ getResp = NoResponse
  /\ outcomes = [j \in JobIds |-> <<>>]
  /\ escaped = [j \in JobIds |-> FALSE]
  /\ faults = 0
  /\ apiKey = "AIzaKey"
  /\ today = 0
  /\ atsCount = 0
  /\ atsResetDate = 0
  /\ enhCount = 0
  /\ enhResetDate = 0
  /\ apiCalls = 0
  /\ score = IdleScore
  /\ enhLast = "none"
  /\ atsRoute = NoAtsRequest
  /\ atsPublished = <<>>
  /\ atsScores = {}
  /\ atsGet = NoAtsResponse
  /\ wsLast = NoWsMessage
  /\ det = IdleDet
  /\ embeddingCache = {}
  /\ embCall = IdleEmbed
  /\ san \in {[IdleSan EXCEPT !.analysis = a] : a \in SanInputs}
  /\ emb = IdleEmb
  /\ kw = IdleKw
  /\ InitClient

\* computeGeminiATSScore from "Validate and sanitize scores" to its return
SanitizeAnswer ==
  /\ san.state = "idle"
  /\ san' = [san EXCEPT !.state = "answered", !.result = sanitize(san.analysis),
                        !.suggestions = sanitizeSuggestions(san.analysis)]
  /\ UNCHANGED <<jobVars, wsVars, quotaVars, apiKey, extVars, cacheVars, emb, kw, clientVars>>

NextSanitize == SanitizeAnswer

SpecSanitize == InitSanitize /\ [][NextSanitize]_vars

\* C23: on a parsed answer every sub-score returned is the answer's value
\* brought into 0..maximum (40 / 25 / 15 / 10 / 10): the value itself when it
\* is in range, 0 when it is negative or absent, the maximum when it is above;
\* the overall is the sum of the five, and at most five suggestions are
\* returned.
C23_Clamped ==
  san.state = "answered" =>
    LET a == san.analysis
        r == san.result
    IN /\ \A f \in ScoreFields :
            /\ r[f] \in 0..PointsMax[f]
            /\ f \notin a.fields => r[f] = 0
            /\ (f \in a.fields /\ a[f] < 0) => r[f] = 0
            /\ (f \in a.fields /\ a[f] > PointsMax[f]) => r[f] = PointsMax[f]
            /\ (f \in a.fields /\ a[f] \in 0..PointsMax[f]) => r[f] = a[f]
       /\ r.overall = r.keywords + r.relevancy + r.quantification + r.formatting
                        + r.readability
       /\ r.overall \in 0..100
       /\ san.suggestions \in 0..5
       /\ a.suggestions \in 0..5 => san.suggestions = a.suggestions

\* an answer with a negative, an absent and three excessive sub-scores and
\* more than five suggestions was sanitized
C23_Witness ==
  /\ san.state = "answered"
  /\ san.analysis.fields = ScoreFields \ {"relevancy"}
  /\ san.analysis.keywords < 0
  /\ san.analysis.quantification > 15
  /\ san.analysis.formatting > 10
  /\ san.analysis.readability > 10
  /\ san.analysis.suggestions > 5
  /\ san.result.overall = 35
  /\ san.suggestions = 5

\* ===================================================== enhanced relevance
\* every server variable as the process starts
IdleServer ==
  /\ jobs = [j \in JobIds |-> NoJob]
  /\ coverLetters = <<>>
  /\ pc = [j \in JobIds |-> "none"]
  /\ idx = [j \in JobIds |-> 0]
  /\ results = [j \in JobIds |-> <<>>]
  /\ resume = [j \in JobIds |-> FALSE]
  /\ jds = [j \in JobIds |-> <<>>]
  /\ genMode = [j \in JobIds |-> "none"]
  /\ wsConnections = <<>>
  /\ readyState = [c \in Conns |-> "none"]
  /\ inbox = [c \in Conns |-> <<>>]
  /\ published = [j \in JobIds |-> <<>>]
  /\ enqueueResp = [j \in JobIds |-> "none"]
  /\ getResp = NoResponse
  /\ outcomes = [j \in JobIds |-> <<>>]
  /\ escaped = [j \in JobIds |-> FALSE]
  /\ faults = 0
  /\ apiKey = "AIzaKey"
  /\ today = 0
  /\ atsCount = 0
  /\ atsResetDate = 0
  /\ enhCount = 0
  /\ enhResetDate = 0
  /\ apiCalls = 0
  /\ score = IdleScore
  /\ enhLast = "none"
  /\ atsRoute = NoAtsRequest
  /\ atsPublished = <<>>
  /\ atsScores = {}
  /\ atsGet = NoAtsResponse
  /\ wsLast = NoWsMessage
  /\ det = IdleDet
  /\ embeddingCache = {}
  /\ embCall = IdleEmbed

InitEmbeddings ==
  /\ IdleServer
  /\ san = IdleSan
  /\ emb \in {[IdleEmb EXCEPT !.input = in, !.supplied = sp, !.a = a, !.b = b] :
                in \in ScoreInputs, sp \in SUBSET Both, a \in EmbedVectors, b \in EmbedVectors}
  /\ kw = IdleKw
  /\ InitClient

\* one call of computeATSScoreWithEmbeddings
EmbeddingScore ==
  /\ emb.state = "idle"
  /\ LET r == computeATSScoreWithEmbeddings(emb.input, emb.supplied, emb.a, emb.b)
     IN emb' = [emb EXCEPT !.state = "answered", !.nan = r.nan, !.result = r.result]
  /\ UNCHANGED <<jobVars, wsVars, quotaVars, apiKey, extVars, cacheVars, san, kw, clientVars>>

NextEmbeddings == EmbeddingScore

SpecEmbeddings == InitEmbeddings /\ [][NextEmbeddings]_vars

\* C24: with both embeddings supplied the relevance is a number in 0..25 and
\* the overall the sum of the five points, in 0..100, whatever the two vectors
\* are (opposed, zero, of different lengths).
C24_EmbeddingRanges ==
  (emb.state = "answered" /\ emb.supplied = Both) =>
    /\ ~emb.nan
    /\ emb.result.relevancy \in 0..25
    /\ emb.result.overall = emb.result.keywords + emb.result.relevancy
                              + emb.result.quantification + emb.result.formatting
                              + emb.result.readability
    /\ emb.result.overall \in 0..100

\* ======================================================= keyword coverage
InitKeywords ==
  /\ IdleServer
  /\ san = IdleSan
  /\ emb = IdleEmb
  /\ kw \in {[IdleKw EXCEPT !.jd = jd, !.resume = res] :
               jd \in TargetKeywords, res \in CandidateKeywords}
  /\ InitClient

\* calculateKeywordScore and the keyword part of getFallbackATSScore on the
\* same texts
KeywordScore ==
  /\ kw.state = "idle"
  /\ kw' = [kw EXCEPT !.state = "answered",
                      !.engine = calculateKeywordScoreOf(kw.jd, kw.resume),
                      !.fallback = getFallbackKeywords(kw.jd, kw.resume)]
  /\ UNCHANGED <<jobVars, wsVars, quotaVars, apiKey, extVars, cacheVars, san, emb, clientVars>>

NextKeywords == KeywordScore

SpecKeywords == InitKeywords /\ [][NextKeywords]_vars

\* the target keywords found among the candidate's
MatchedOf(jd, res) == {i \in 1..Len(jd) : jd[i] \in res}

ProcStep(j) ==
  \/ \E o \in UpdateOutcomes : ProcRunning(j, o)
  \/ \E o \in {"ok", "throw"} : ProcLoad(j, o)
  \/ \E o \in UpdateOutcomes : ProcResumeMissing(j, o)
  \/ ProcEnterLoop(j)
  \/ SkipMissing(j)
  \/ StartTarget(j)
  \/ \E o \in GenOutcomes : GenDone(j, o)
  \/ TimerFire(j)
  \/ \E o \in UpdateOutcomes : Finish(j, o)
  \/ \E o \in UpdateOutcomes : ProcCatch(j, o)

\* the event loop runs every queued continuation and timer, and every awaited
\* call settles
SpecLive == Init /\ [][Next]_vars /\ \A j \in JobIds : WF_vars(ProcStep(j))

C27_CompletedObserved ==
  [][\A j \in JobIds :
       (CompletedEvents(j) # {} /\ getResp' # NoResponse /\ getResp'.id = j) =>
         /\ getResp'.status = "completed"
         /\ \A p \in CompletedEvents(j) :
              getResp'.artifacts = ResultArtifacts(published[j][p].results)]_vars

\* ================================================== who a broadcast reaches
\* the set of channel ch after this step
SubscribersAfter(ch) == IF ch \in DOMAIN wsConnections' THEN wsConnections'[ch] ELSE {}

\* C28: a connection enters the set of a channel only by its own subscribe
\* message for that channel, sent while it is open, and a repeated subscribe
\* leaves the registry as it is; a closed connection is in no set; a
\* broadcast on a channel sends to a connection only if it is in the set of
\* that channel and OPEN at that moment, and then each message once, so a
\* connection that is only in the sets of other channels is sent nothing.
C28_OnlySubscribers ==
  /\ [][\A c \in Conns, ch \in WsChannels :
          (c \in SubscribersAfter(ch) /\ c \notin Subscribers(ch)) =>
            /\ wsLast' = [conn |-> c, msg |-> [json |-> "object", channel |-> ch]]
            /\ readyState[c] = "OPEN"
            /\ \A k \in WsChannels \ {ch} : SubscribersAfter(k) = Subscribers(k)]_vars
  /\ [][\A c \in Conns, ch \in WsChannels :
          (wsLast' = [conn |-> c, msg |-> [json |-> "object", channel |-> ch]]
             /\ c \in Subscribers(ch)) => wsConnections' = wsConnections]_vars
  /\ [](\A c \in Conns, ch \in WsChannels :
          c \in Subscribers(ch) => readyState[c] \in {"OPEN", "CLOSING"})
  /\ [][\A c \in Conns :
          inbox'[c] # inbox[c] =>
            /\ AtsPublishedNow
            /\ c \in Subscribers(PublishChannel)
            /\ readyState[c] = "OPEN"
            /\ Len(inbox'[c]) = Len(inbox[c]) + Len(atsPublished') - Len(atsPublished)
            /\ \A i \in (Len(inbox[c]) + 1)..Len(inbox'[c]) :
                 /\ inbox'[c][i].channel = PublishChannel
                 /\ inbox'[c][i] = atsPublished'[Len(atsPublished) + i - Len(inbox[c])]]_vars

\* connection 1, in the set of the score channel, was sent the two messages
\* of the score once each; connection 2, open and only in the set of the
\* batch channel, was sent nothing
C28_Witness ==
  /\ Len(atsPublished) = 2
  /\ readyState[1] = "OPEN"
  /\ readyState[2] = "OPEN"
  /\ Subscribers(atsPublished[1].channel) = {1}
  /\ Subscribers(BatchChannel(1)) = {2}
  /\ Len(inbox[1]) = 2
  /\ inbox[1][1] # inbox[1][2]
  /\ inbox[2] = <<>>

\* ===================================================== the client's hook
\* wsRef.current = new WebSocket(wsUrl): one more socket, connecting
connect(ss) == Append(ss, "CONNECTING")

\* mutant: one attempt more is allowed
ShouldReconnectInclusive(n) == n <= maxReconnectAttempts
\* onclose: if (reconnectAttempts.current < maxReconnectAttempts)
ShouldReconnect(n) == n < maxReconnectAttempts

\* the timers that are set and have neither fired nor been cleared
PendingTimers == {t \in 1..Len(timers) : timers[t] = "pending"}

InitHook ==
  /\ IdleServer
  /\ san = IdleSan
  /\ emb = IdleEmb
  /\ kw = IdleKw
  /\ InitClient

\* useEffect(() => { connect(); ... }, []) on mount
ClientMount ==
  /\ hook = "initial"
  /\ hook' = "mounted"
  /\ sockets' = connect(sockets)
  /\ wsRef' = Len(sockets')
  /\ UNCHANGED <<reconnectTimeoutRef, timers, reconnectAttempts, disconnected>>
  /\ UNCHANGED <<jobVars, wsVars, quotaVars, apiKey, extVars, cacheVars, pureVars>>

\* onopen of socket s
ClientOpen(s) ==
  /\ s \in 1..Len(sockets)
  /\ sockets[s] = "CONNECTING"
  /\ sockets' = [sockets EXCEPT ![s] = "OPEN"]
  /\ reconnectAttempts' = 0
  /\ UNCHANGED <<wsRef, reconnectTimeoutRef, timers, hook, disconnected>>
  /\ UNCHANGED <<jobVars, wsVars, quotaVars, apiKey, extVars, cacheVars, pureVars>>

\* onclose of socket s (the connection failed, was lost, or was closed by
\* close()): a reconnect timer is set unless the attempts are used up
ClientClose(s) ==
  /\ s \in 1..Len(sockets)
  /\ sockets[s] \in {"CONNECTING", "OPEN", "CLOSING"}
  /\ sockets' = [sockets EXCEPT ![s] = "CLOSED"]
  /\ IF ShouldReconnect(reconnectAttempts)
       THEN /\ timers' = Append(timers, "pending")
            /\ reconnectTimeoutRef' = Len(timers')
       ELSE UNCHANGED <<timers, reconnectTimeoutRef>>
  /\ UNCHANGED <<wsRef, reconnectAttempts, hook, disconnected>>
  /\ UNCHANGED <<jobVars, wsVars, quotaVars, apiKey, extVars, cacheVars, pureVars>>

\* the callback of timer t, reconnectDelay after it was set:
\* reconnectAttempts.current++; connect()
ClientTimer(t) ==
  /\ t \in PendingTimers
  /\ Len(sockets) < MaxSockets
  /\ timers' = [timers EXCEPT ![t] = "fired"]
  /\ reconnectAttempts' = reconnectAttempts + 1
  /\ sockets' = connect(sockets)
  /\ wsRef' = Len(sockets')
  /\ UNCHANGED <<reconnectTimeoutRef, hook, disconnected>>
  /\ UNCHANGED <<jobVars, wsVars, quotaVars, apiKey, extVars, cacheVars, pureVars>>

\* disconnect(), called by the component or as the cleanup of the effect on
\* unmount: clearTimeout of the timer in the ref, close() of the socket in
\* the ref, both refs null
ClientDisconnect(unmount) ==
  /\ hook = "mounted"
  /\ hook' = IF unmount THEN "unmounted" ELSE hook
  /\ timers' = IF reconnectTimeoutRef # 0 /\ timers[reconnectTimeoutRef] = "pending"
                 THEN [timers EXCEPT ![reconnectTimeoutRef] = "cleared"]
                 ELSE timers
  /\ reconnectTimeoutRef' = 0
  /\ sockets' = IF wsRef # 0 /\ sockets[wsRef] \in {"CONNECTING", "OPEN"}
                  THEN [sockets EXCEPT ![wsRef] = "CLOSING"]
                  ELSE sockets
  /\ wsRef' = 0
  /\ disconnected' = TRUE
  /\ UNCHANGED reconnectAttempts
  /\ UNCHANGED <<jobVars, wsVars, quotaVars, apiKey, extVars, cacheVars, pureVars>>

NextHook ==
  \/ ClientMount
  \/ \E s \in 1..MaxSockets : ClientOpen(s)
  \/ \E s \in 1..MaxSockets : ClientClose(s)
  \/ \E t \in 1..MaxSockets : ClientTimer(t)
  \/ \E unmount \in BOOLEAN : ClientDisconnect(unmount)

SpecHook == InitHook /\ [][NextHook]_vars

\* C29: after disconnect() has run the hook creates no WebSocket.
C29_NoSocketAfterDisconnect ==
  [][disconnected => Len(sockets') = Len(sockets)]_vars

\* C30: reconnectAttempts stays in 0..5 and at most one reconnect timer is
\* pending; the counter goes down only to 0 and only when a socket opens;
\* every socket after the first is created by a timer, which counts 1 more;
\* the close of a socket at 5 attempts sets no timer, and with 5 attempts
\* made, every socket closed and no timer pending nothing is created any more.
C30_BoundedReconnects ==
  /\ [](reconnectAttempts \in 0..5 /\ Cardinality(PendingTimers) <= 1)
  /\ [][reconnectAttempts' < reconnectAttempts =>
          /\ reconnectAttempts' = 0
          /\ \E s \in 1..Len(sockets) : sockets[s] = "CONNECTING" /\ sockets'[s] = "OPEN"]_vars
  /\ [][(Len(sockets') > Len(sockets) /\ Len(sockets) > 0) =>
          /\ Len(sockets') = Len(sockets) + 1
          /\ reconnectAttempts' = reconnectAttempts + 1
          /\ \E t \in PendingTimers : timers'[t] = "fired"]_vars
  /\ [][reconnectAttempts = 5 => Len(timers') = Len(timers)]_vars
  /\ [][(reconnectAttempts = 5 /\ PendingTimers = {}
           /\ \A s \in 1..Len(sockets) : sockets[s] = "CLOSED") =>
          (sockets' = sockets /\ timers' = timers /\ reconnectAttempts' = 5)]_vars

\* the connection was lost and five reconnect attempts in a row have failed:
\* six sockets, all closed, five timers, all fired
C30_Witness ==
  /\ reconnectAttempts = 5
  /\ Len(sockets) = 6
  /\ \A s \in 1..6 : sockets[s] = "CLOSED"
  /\ Len(timers) = 5
  /\ \A t \in 1..5 : timers[t] = "fired"
  /\ ~disconnected

====
